---- MODULE Spec2Model ----
(***************************************************************************)
(* Incremental indexing pipeline of SemanticalCodeSearch                   *)
(* (src/src/indexer.py, ProjectIndexer) together with the stores it writes *)
(* (sqlite_storage.py, falkordb_storage.py, chroma_storage.py), the        *)
(* directory walk (parsers/factory.py) and the graph assembler             *)
(* (graph/manager.py).                                                     *)
(*                                                                         *)
(* The hybrid search over the same stores (src/src/search.py,               *)
(* SearchManager) reads what the indexer wrote.                            *)
(*                                                                         *)
(* Five specifications share the definitions:                              *)
(*   Spec       the indexer run again and again (main.py order) against a  *)
(*              two-file source tree that is edited between runs;          *)
(*   SchedSpec  summarize_snippets alone, on every snippet list of         *)
(*              MaxSnippets snippets with arbitrary parent links;          *)
(*   CycleSpec  summarize_snippets on the lists whose parent links hold a  *)
(*              cycle (FairCycleSpec adds the fairness of the threads);    *)
(*   SearchSpec search(query, n_results) on every small content of the     *)
(*              primary and vector stores;                                 *)
(*   FuseSpec   _fuse_results alone, on every pair of candidate lists.     *)
(***************************************************************************)
EXTENDS Integers, Sequences, FiniteSets, TLC

(* ------------------------------ bounds -------------------------------- *)
MaxVersion == 2
MaxEdits == 1
MaxFaults == 2
MaxRuns == 2
MaxSnippets == 3
MaxBatch == 2
MaxRank == 3
MaxDocs == 3
MaxK == 2

(* ------------------------------ data ---------------------------------- *)
\* summarize_snippets(self, snippets, batch_size: int = 5, ...): main.py and
\* server.py call it without a batch size
DefaultBatchSize == 5

\* os.walk order of the two source files of the tree
FilesSeq == <<"a.py", "b.py">>
Files == {FilesSeq[i] : i \in 1..Len(FilesSeq)}

\* Python None for ids / parent ids, hashes, summaries and vectors
NoId == <<"", "", 0>>
NoHash == 0

\* hashlib.sha256(content): injective on the contents 1..MaxVersion
Hash(content) == 100 + content

\* sha256("file:" + file_path): depends on the path only
FileId(f) == <<f, "file", 0>>

\* sha256(path:start_byte:chunk_index:content): depends on the content
SnippetId(f, name, v) == <<f, name, v>>

Snippet(id, name, type, f, parent) ==
  [id |-> id, name |-> name, type |-> type, file |-> f, parent |-> parent,
   summary |-> 0, psum |-> 0]

\* parser.parse_file(content, file_path) for the two files of the tree:
\* a.py holds the function foo; b.py holds the class Bar with the method baz,
\* whose parent_id is the hash of the class text and so is no snippet id.
Parse(f, v) ==
  IF f = "a.py"
  THEN << Snippet(SnippetId(f, "foo", v), "foo", "function", f, NoId) >>
  ELSE << Snippet(SnippetId(f, "Bar", v), "Bar", "class", f, NoId),
          Snippet(SnippetId(f, "baz", v), "baz", "method", f,
                  <<f, "sha256(Bar)", v>>) >>

\* relationship candidates of the per-language extractor, by identifier:
\* foo instantiates Bar and calls print; baz calls foo; Bar defines baz.
Candidates(f, v) ==
  IF f = "a.py"
  THEN { [src |-> SnippetId(f, "foo", v), name |-> "Bar", type |-> "INSTANTIATES"],
         [src |-> SnippetId(f, "foo", v), name |-> "print", type |-> "CALLS"] }
  ELSE { [src |-> SnippetId(f, "baz", v), name |-> "foo", type |-> "CALLS"] }

\* DEFINES: a top-level definition has sha256(code) as its source, which is
\* the id of no snippet; a nested one has its containing snippet
Defines(f, v) ==
  IF f = "a.py"
  THEN { <<<<f, "sha256(code)", v>>, SnippetId(f, "foo", v), "DEFINES">> }
  ELSE { <<<<f, "sha256(code)", v>>, SnippetId(f, "Bar", v), "DEFINES">>,
         <<SnippetId(f, "Bar", v), SnippetId(f, "baz", v), "DEFINES">> }

(* --------------------------- sequences -------------------------------- *)
RECURSIVE Concat(_, _)
\* all_snippets.extend(...) over the files of the walk, in walk order
Concat(perFile, fs) ==
  IF fs = <<>> THEN <<>>
  ELSE perFile[Head(fs)] \o Concat(perFile, Tail(fs))

Ids(s) == {s[i].id : i \in 1..Len(s)}

FilesOf(s) == {s[i].file : i \in 1..Len(s)}

(* ------------------------------ state --------------------------------- *)
VARIABLES
  \* the source tree and the injected failures
  disk, edits, faults,
  \* the three stores and the fingerprint table (the project's data directory)
  sqliteRows, fileHashes, graphNodes, graphEdges, chroma,
  \* the ProjectIndexer object
  storage, changed_files, all_encountered_files, embedding_cache,
  \* the values main.py passes from step to step
  pc, snippets, relationships, embeddings,
  \* summarize_snippets: the scheduler
  batch_size, mainPc, in_degree, needs_llm, ready_pool, futures,
  summarized_ids, processed_count,
  \* observation of the current run and of the previous one
  run, cur, prev,
  \* the SearchManager and the locals of one search(query, n_results)
  searchPc, orchestrator, reranker, query, n_results, final_query, hyde_used,
  vector_results, keyword_results_list, sorted_ids, final_results, sobs,
  \* the embedding queue of the indexer, _process_embeddings (the producer)
  \* and _run_embedding_worker (the consumer thread)
  embedding_queue, to_embed, embed_batch_size, embedPc, workerPc, embed_batch, eobs,
  \* one call of SQLiteStorage.save_snippets or delete_file_snippets
  sqlPc, sql_op, retry_count, sqlobs

envVars == <<disk, edits, faults>>
storeVars == <<sqliteRows, fileHashes, graphNodes, graphEdges, chroma>>
objVars == <<storage, changed_files, all_encountered_files, embedding_cache>>
runVars == <<pc, snippets, relationships, embeddings>>
schedVars == <<batch_size, mainPc, in_degree, needs_llm, ready_pool, futures,
               summarized_ids, processed_count>>
obsVars == <<run, cur, prev>>
searchVars == <<searchPc, orchestrator, reranker, query, n_results, final_query,
                hyde_used, vector_results, keyword_results_list, sorted_ids,
                final_results, sobs>>
indexVars == <<envVars, storeVars, objVars, runVars, schedVars, obsVars>>
queueVars == <<embedding_queue, to_embed, embed_batch_size, embedPc, workerPc, embed_batch, eobs>>
sqlVars == <<sqlPc, sql_op, retry_count, sqlobs>>
auxVars == <<queueVars, sqlVars>>
vars == <<indexVars, searchVars, auxVars>>

(* --------------------------- primary store ---------------------------- *)
\* SQLiteStorage.get_file_hash: the stored fingerprint, None when absent
GetFileHash(hashes, f) == hashes[f]

\* SQLiteStorage.get_file_snippets: the rows of one file, in rowid order
GetFileSnippets(rows, f) == SelectSeq(rows, LAMBDA r : r.file = f)

SqliteDeleteRows_None(rows, f) == rows

\* SQLiteStorage.delete_file_snippets, the rows
SqliteDeleteRows(rows, f) == SelectSeq(rows, LAMBDA r : r.file # f)

\* SQLiteStorage.delete_file_snippets, the fingerprint
SqliteDeleteHash(hashes, f) == [hashes EXCEPT ![f] = NoHash]

\* SQLiteStorage.save_snippets: INSERT OR REPLACE keyed by id
SqliteSaveSnippets(rows, new) ==
  SelectSeq(rows, LAMBDA r : r.id \notin Ids(new)) \o new

\* SQLiteStorage.get_all_file_paths
SqliteAllFilePaths(rows) == FilesOf(rows)

(* ---------------------------- graph store ----------------------------- *)
NodeIds(nodes) == {n.id : n \in nodes}

\* FalkorDBStorage.save_snippets: MERGE by id, SET file_path
GraphSaveSnippets(nodes, new) ==
  {n \in nodes : n.id \notin Ids(new)} \cup
  {[id |-> new[i].id, file |-> new[i].file] : i \in 1..Len(new)}

GraphPlaceholders_None(nodes, rels) == nodes

\* FalkorDBStorage.save_relationships, step 1: placeholder targets
GraphPlaceholders(nodes, rels) ==
  nodes \cup {[id |-> r[2], file |-> ""] : r \in {q \in rels : q[2] \notin NodeIds(nodes)}}

\* FalkorDBStorage.save_relationships, step 2: MATCH src, MATCH dst, MERGE
GraphMergeEdges(nodes, edges, rels) ==
  edges \cup {r \in rels : r[1] \in NodeIds(nodes) /\ r[2] \in NodeIds(nodes)}

\* FalkorDBStorage.delete_file_data: DETACH DELETE the nodes of the file
GraphDeleteNodes(nodes, f) == {n \in nodes : n.file # f}

\* DETACH DELETE removes every edge with a deleted endpoint
GraphDetachEdges(nodes, edges, f) ==
  {e \in edges : e[1] \in NodeIds(GraphDeleteNodes(nodes, f))
              /\ e[2] \in NodeIds(GraphDeleteNodes(nodes, f))}

\* FalkorDBStorage.get_all_file_paths: s.file_path <> ''
GraphAllFilePaths(nodes) == {n.file : n \in nodes} \ {""}

(* ---------------------------- vector store ---------------------------- *)
\* ChromaStorage.delete_file_snippets
ChromaDelete(vecs, f) == {x \in vecs : x.file # f}

\* ChromaStorage.save_snippets: upsert (id, embedding, metadata)
ChromaSave(vecs, pairs) ==
  {x \in vecs : x.id \notin {p.id : p \in pairs}} \cup pairs

\* ChromaStorage.get_all_file_paths
ChromaAllFilePaths(vecs) == {x.file : x \in vecs} \ {""}

(* -------------------- Pass 1: extract_snippets ------------------------ *)
Present == {f \in Files : disk[f] # 0}

ShouldReuse_Never(old_hash, content_hash) == FALSE

\* should_parse_callback: old_hash == content_hash
ShouldReuse(old_hash, content_hash) == old_hash = content_hash

\* should_parse_callback returns the stored rows (REUSE) or None
Reused(f) ==
  storage /\ ShouldReuse(GetFileHash(fileHashes, f), Hash(disk[f]))

\* should_parse_callback: self.changed_files.add(file_path); not reached
\* when self.sqlite is unset
ChangedOf(fs) == {f \in fs : storage /\ ~Reused(f)}

\* parse_directory: snippets is None -> parser.parse_file
ToParse(fs) == {f \in fs : ~Reused(f)}

FileNode(f) == Snippet(FileId(f), f, "file", f, NoId)

CreateFileSnippets_Always(raw, changed) ==
  LET RECURSIVE nodes(_)
      nodes(fs) == IF fs = <<>> THEN <<>>
                   ELSE (IF Head(fs) \in FilesOf(raw) THEN <<FileNode(Head(fs))>> ELSE <<>>)
                        \o nodes(Tail(fs))
  IN nodes(FilesSeq)

\* GraphManager.create_file_snippets; the file was read by parse_directory
\* in the same call and the tree does not change during a run, so open()
\* succeeds
CreateFileSnippets(raw, changed) ==
  LET need(f) == /\ f \in FilesOf(raw)
                 /\ ~(f \notin changed /\
                      \E i \in 1..Len(raw) : raw[i].file = f /\ raw[i].type = "file")
      RECURSIVE nodes(_)
      nodes(fs) == IF fs = <<>> THEN <<>>
                   ELSE (IF need(Head(fs)) THEN <<FileNode(Head(fs))>> ELSE <<>>)
                        \o nodes(Tail(fs))
  IN nodes(FilesSeq)

LinkOrphanSnippets_None(s) == s

\* ProjectIndexer._link_orphan_snippets
LinkOrphanSnippets(s) ==
  LET hasFile(f) == \E i \in 1..Len(s) : s[i].type = "file" /\ s[i].file = f
      fileId(f) == (CHOOSE i \in 1..Len(s) : s[i].type = "file" /\ s[i].file = f)
  IN [i \in 1..Len(s) |->
        IF /\ s[i].type # "file"
           /\ hasFile(s[i].file)
           /\ (s[i].parent = NoId \/ s[i].parent \notin Ids(s))
        THEN [s[i] EXCEPT !.parent = s[fileId(s[i].file)].id]
        ELSE s[i]]

NewCur ==
  [parsed |-> {}, reused |-> {}, parseFailed |-> {}, extracted |-> {},
   llm_sent |-> {}, emb_sent |-> {}, needs0 |-> {}, dispatched |-> {},
   rows0 |-> sqliteRows, hashes0 |-> fileHashes, nodes0 |-> graphNodes,
   edges0 |-> graphEdges, chroma0 |-> chroma,
   deleted |-> {}, written |-> {}, saved |-> FALSE,
   raised |-> FALSE, silent |-> FALSE, sum0 |-> {}, failed |-> {},
   log |-> {}, aborted |-> "none"]

\* ProjectIndexer.extract_snippets with ParserFactory.parse_directory;
\* the parser raises for the files in fail
ExtractSnippets ==
  /\ pc = "idle" /\ run < MaxRuns
  /\ \E fail \in SUBSET ToParse(Present) :
       /\ Cardinality(fail) <= MaxFaults - faults
       /\ faults' = faults + Cardinality(fail)
       /\ LET perFile == [f \in Files |->
                            IF f \notin Present THEN <<>>
                            ELSE IF Reused(f) THEN GetFileSnippets(sqliteRows, f)
                            ELSE IF f \in fail THEN <<>>
                            ELSE Parse(f, disk[f])]
              raw == Concat(perFile, FilesSeq)
              changed == ChangedOf(Present)
          IN /\ changed_files' = changed
             /\ all_encountered_files' =
                  [f \in Files |-> IF f \in Present THEN Hash(disk[f]) ELSE NoHash]
             /\ snippets' = LinkOrphanSnippets(raw \o CreateFileSnippets(raw, changed))
             /\ cur' = [NewCur EXCEPT !.parsed = ToParse(Present),
                                      !.reused = Present \ ToParse(Present),
                                      !.parseFailed = fail]
  /\ run' = run + 1
  /\ pc' = "extracted"
  /\ relationships' = {} /\ embeddings' = <<>>
  /\ prev' = [seen |-> all_encountered_files, ids |-> Ids(snippets),
              parseFailed |-> cur.parseFailed, complete |-> cur.saved /\ pc = "idle"]
  /\ UNCHANGED <<auxVars, searchVars, disk, edits, storeVars, storage, embedding_cache, schedVars>>

(* ------------------ Pass 2: extract_relationships --------------------- *)
\* GraphManager.build_graph, the symbol table: first writer wins
SymbolDefs(s, name) ==
  {i \in 1..Len(s) : s[i].name = name /\
                     s[i].type \in {"function", "class", "struct", "enum"}}

ResolveSymbol_Last(s, name) ==
  IF SymbolDefs(s, name) = {} THEN <<"", name, 0>>
  ELSE s[CHOOSE i \in SymbolDefs(s, name) : \A j \in SymbolDefs(s, name) : i >= j].id

\* BaseRelationshipExtractor.resolve_symbol: symbol_table.get(name, name);
\* the raw name used as an id is written <<"", name, 0>>
ResolveSymbol(s, name) ==
  IF SymbolDefs(s, name) = {} THEN <<"", name, 0>>
  ELSE s[CHOOSE i \in SymbolDefs(s, name) : \A j \in SymbolDefs(s, name) : i <= j].id

\* GraphManager.build_graph: the files whose relationships are extracted
FilesToExtract(s, changed) == {f \in FilesOf(s) : f \in changed}

\* PythonRelationshipExtractor.extract for one file
ExtractFile(s, f) ==
  {<<c.src, ResolveSymbol(s, c.name), c.type>> : c \in Candidates(f, disk[f])}
  \cup Defines(f, disk[f])

\* ProjectIndexer.extract_relationships
ExtractRelationships ==
  /\ pc = "extracted"
  /\ relationships' =
       UNION {ExtractFile(snippets, f) : f \in FilesToExtract(snippets, changed_files)}
  /\ cur' = [cur EXCEPT !.extracted = FilesToExtract(snippets, changed_files)]
  /\ pc' = "related"
  /\ UNCHANGED <<auxVars, searchVars, envVars, storeVars, objVars, snippets, embeddings, schedVars,
                 run, prev>>

(* -------------------- Pass 3: summarize_snippets ---------------------- *)
UniqueIds_Raw(s) == [k \in 1..Len(s) |-> s[k].id]

\* {s.id: s for s in snippets}: the keys, in order of first occurrence
UniqueIds(s) ==
  LET first == SelectSeq([i \in 1..Len(s) |-> i],
                         LAMBDA i : \A j \in 1..(i - 1) : s[j].id # s[i].id)
  IN [k \in 1..Len(first) |-> s[first[k]].id]

\* id_to_snippet[id]: the last object of the list with that id
IdToIdx(s, id) ==
  CHOOSE i \in 1..Len(s) : s[i].id = id /\ \A j \in 1..Len(s) : s[j].id = id => j <= i

Snip(id) == snippets[IdToIdx(snippets, id)]

\* s.parent_id and s.parent_id in id_to_snippet
HasParentInSet(id) ==
  Snip(id).parent # NoId /\ Snip(id).parent \in Ids(snippets)

\* if s.parent_id == s.id: continue
SelfParentSkip(id) == Snip(id).parent = id

\* parent_to_children, built once before the loop
ParentToChildren(p) ==
  {c \in Ids(snippets) : HasParentInSet(c) /\ ~SelfParentSkip(c) /\ Snip(c).parent = p}

\* in_degree after the construction loop
InDegreeInit == [id \in Ids(snippets) |-> Cardinality(ParentToChildren(id))]

NeedsSeed_All(s, changed) == TRUE

NeedsSeed_ChangedOnly(s, changed) == s.file \in changed

\* needs_llm: s.file_path in self.changed_files or not s.summary
NeedsSeed(s, changed) == s.file \in changed \/ s.summary = 0

ReadyInit_All(deg) == UniqueIds(snippets)

\* ready_pool = [s.id for s in snippets if in_degree[s.id] == 0]
ReadyInit(deg) == SelectSeq(UniqueIds(snippets), LAMBDA id : deg[id] = 0)

RECURSIVE Batches(_, _)
\* batch = ready_pool[:batch_size]; ready_pool = ready_pool[batch_size:]
Batches(pool, size) ==
  IF pool = <<>> THEN <<>>
  ELSE IF Len(pool) <= size THEN <<pool>>
  ELSE <<SubSeq(pool, 1, size)>> \o Batches(SubSeq(pool, size + 1, Len(pool)), size)

\* executor.submit(process_batch, batch)
Submit(batch) ==
  [ids |-> batch, stage |-> "submitted", to_summarize |-> <<>>, child_context |-> {},
   failed |-> FALSE]

LoopExit_Never(futs) == FALSE

\* if not futures: break
LoopExit(futs) == futs = <<>>

\* the head of the scheduling loop: while processed_count < len(snippets),
\* drain the ready pool into submitted batches, leave when no future is left
LoopHead(pool, futs, count, size) ==
  IF count < Len(UniqueIds(snippets))
  THEN LET new == Batches(pool, size)
           all == futs \o [i \in 1..Len(new) |-> Submit(new[i])]
       IN [futures |-> all, ready_pool |-> <<>>,
           mainPc |-> IF LoopExit(all) THEN "post" ELSE "wait",
           dispatched |-> {pool[i] : i \in 1..Len(pool)}]
  ELSE [futures |-> futs, ready_pool |-> pool, mainPc |-> "post", dispatched |-> {}]

\* summarize_snippets(snippets, batch_size) from its entry to the first
\* wait() of the main thread (or to the end of the loop)
SummarizeStart(size) ==
  /\ pc = "related"
  /\ batch_size' = size
  /\ pc' = "summarizing"
  /\ in_degree' = InDegreeInit
  /\ needs_llm' = {id \in Ids(snippets) : NeedsSeed(Snip(id), changed_files)}
  /\ summarized_ids' = {}
  /\ processed_count' = 0
  /\ \E head \in {LoopHead(ReadyInit(InDegreeInit), <<>>, 0, size)} :
       /\ mainPc' = head.mainPc
       /\ ready_pool' = head.ready_pool
       /\ futures' = head.futures
       /\ cur' = [cur EXCEPT
            !.needs0 = {id \in Ids(snippets) : NeedsSeed(Snip(id), changed_files)},
            !.sum0 = {id \in Ids(snippets) : Snip(id).summary # 0},
            !.dispatched = @ \cup head.dispatched,
            !.log = @ \cup {[text |-> "Pass 3: Generating hierarchical summaries",
                              ids |-> {}]}]
  /\ UNCHANGED <<auxVars, searchVars, envVars, storeVars, objVars, snippets, relationships, embeddings,
                 run, prev>>

NeedsNow_Self(sid, needs) == sid \in needs

\* if sid in needs_llm or any(cid in needs_llm for cid in children)
NeedsNow(sid, needs) ==
  sid \in needs \/ \E c \in ParentToChildren(sid) : c \in needs

RECURSIVE LockScan(_, _, _)
\* process_batch, the loop under the lock: needs_llm and to_summarize
LockScan(ids, needs, acc) ==
  IF ids = <<>> THEN [needs |-> needs, to_summarize |-> acc]
  ELSE IF NeedsNow(Head(ids), needs)
       THEN LockScan(Tail(ids), needs \cup {Head(ids)}, Append(acc, Head(ids)))
       ELSE LockScan(Tail(ids), needs, acc)

ChildContext_All(to_sum) ==
  UNION {{<<to_sum[i], c>> : c \in ParentToChildren(to_sum[i])} : i \in 1..Len(to_sum)}

\* child_context[sid]: the children that have a summary at this moment
ChildContext(to_sum) ==
  UNION {{<<to_sum[i], c>> : c \in {k \in ParentToChildren(to_sum[i]) : Snip(k).summary # 0}} :
           i \in 1..Len(to_sum)}

\* process_batch, the critical section (with lock: ...)
ProcessBatchLock(i) ==
  /\ pc = "summarizing"
  /\ i \in 1..Len(futures) /\ futures[i].stage = "submitted"
  /\ \E r \in {LockScan(futures[i].ids, needs_llm, <<>>)} :
        /\ needs_llm' = r.needs
        /\ futures' = [futures EXCEPT
             ![i].stage = IF r.to_summarize = <<>> THEN "finished" ELSE "calling",
             ![i].to_summarize = r.to_summarize,
             ![i].child_context = ChildContext(r.to_summarize)]
  /\ UNCHANGED <<auxVars, searchVars, envVars, storeVars, objVars, runVars, batch_size, mainPc,
                 in_degree, ready_pool, summarized_ids, processed_count, obsVars>>

\* llm.summarize_batch mutates snippet.summary in place; the text a call
\* returns is written as the number of the run that made the call, 0 is the
\* empty summary
SetSummaries(s, ids) ==
  [k \in 1..Len(s) |->
     IF s[k].id \in ids /\ k = IdToIdx(s, s[k].id)
     THEN [s[k] EXCEPT !.summary = run] ELSE s[k]]

\* process_batch, the call of the summarization collaborator: it returns
\* (ok) or raises, which is logged
SummarizeBatch(i, ok) ==
  /\ pc = "summarizing"
  /\ i \in 1..Len(futures) /\ futures[i].stage = "calling"
  /\ LET sent == {futures[i].to_summarize[k] : k \in 1..Len(futures[i].to_summarize)}
     IN /\ cur' = [cur EXCEPT !.llm_sent = @ \cup sent,
                              !.failed = IF ok THEN @ ELSE @ \cup sent,
                              !.log = IF ok THEN @ ELSE @ \cup
                                {[text |-> "Batch summarization failed", ids |-> {}]}]
        /\ IF ok THEN /\ snippets' = SetSummaries(snippets, sent)
                      /\ UNCHANGED faults
           ELSE /\ faults < MaxFaults
                /\ faults' = faults + 1
                /\ UNCHANGED snippets
  /\ futures' = [futures EXCEPT ![i].stage = "finished", ![i].failed = ~ok]
  /\ UNCHANGED <<auxVars, searchVars, disk, edits, storeVars, objVars, pc, relationships, embeddings,
                 batch_size, mainPc, in_degree, needs_llm, ready_pool,
                 summarized_ids, processed_count, run, prev>>

CompleteOne_NoUnlock(sid, st) ==
  IF sid \in st.done THEN st
  ELSE [deg |-> st.deg, ready |-> st.ready, done |-> st.done \cup {sid},
        count |-> st.count + 1]

\* one sid of f.result(): count it once and unlock its parent
CompleteOne(sid, st) ==
  IF sid \in st.done THEN st
  ELSE LET pid == Snip(sid).parent
           d == IF HasParentInSet(sid) THEN [st.deg EXCEPT ![pid] = @ - 1] ELSE st.deg
       IN [deg |-> d,
           ready |-> IF HasParentInSet(sid) /\ d[pid] = 0
                     THEN Append(st.ready, pid) ELSE st.ready,
           done |-> st.done \cup {sid},
           count |-> st.count + 1]

RECURSIVE Complete(_, _)
\* for sid in f.result(): ..., one sid after the other
Complete(ids, st) ==
  IF ids = <<>> THEN st
  ELSE CHOOSE r \in {Complete(Tail(ids), st1) : st1 \in {CompleteOne(Head(ids), st)}} : TRUE

Result_Raises(f) == IF f.failed THEN <<>> ELSE f.ids

\* f.result(): process_batch catches the error of the call and returns
\* batch_ids in every case
Result(f) == f.ids

RECURSIVE Flatten(_, _)
Flatten(order, futs) ==
  IF order = <<>> THEN <<>>
  ELSE Result(futs[Head(order)]) \o Flatten(Tail(order), futs)

RECURSIVE Orders(_)
\* for f in done: done is a set, the futures come in any order
Orders(S) ==
  IF S = {} THEN {<<>>}
  ELSE UNION {{<<x>> \o o : o \in Orders(S \ {x})} : x \in S}

\* the main thread from one wait() to the next: done, futures =
\* wait(futures, FIRST_COMPLETED), the loop over done, then the loop head
SchedWait ==
  /\ pc = "summarizing" /\ mainPc = "wait"
  /\ LET done == {i \in 1..Len(futures) : futures[i].stage = "finished"}
     IN /\ done # {}
        /\ \E order \in Orders(done) :
             \E st \in {Complete(Flatten(order, futures),
                                  [deg |-> in_degree, ready |-> ready_pool,
                                   done |-> summarized_ids, count |-> processed_count])} :
               \E head \in {LoopHead(st.ready,
                                      SelectSeq(futures, LAMBDA f : f.stage # "finished"),
                                      st.count, batch_size)} :
                /\ in_degree' = st.deg
                /\ summarized_ids' = st.done
                /\ processed_count' = st.count
                /\ ready_pool' = head.ready_pool
                /\ futures' = head.futures
                /\ mainPc' = head.mainPc
                /\ cur' = [cur EXCEPT !.dispatched = @ \cup head.dispatched]
  /\ UNCHANGED <<auxVars, searchVars, envVars, storeVars, objVars, runVars, batch_size, needs_llm,
                 run, prev>>

(* the scheduler at the grain of the lock: a pool thread enters `with lock:`
   and leaves it in two steps, the main thread runs its completion loop
   without the lock and takes the lock for the drain of the ready pool *)
\* a pool thread is inside the critical section of process_batch
LockHeld == \E i \in 1..Len(futures) : futures[i].stage = "locked"

\* process_batch: with lock, entered
LockAcquire(i) ==
  /\ pc = "summarizing"
  /\ i \in 1..Len(futures) /\ futures[i].stage = "submitted"
  /\ ~LockHeld
  /\ futures' = [futures EXCEPT ![i].stage = "locked"]
  /\ UNCHANGED <<auxVars, searchVars, envVars, storeVars, objVars, runVars, batch_size, mainPc,
                 in_degree, needs_llm, ready_pool, summarized_ids, processed_count,
                 obsVars>>

\* process_batch: the loop under the lock, then the lock is released
ProcessBatchLocked(i) ==
  /\ pc = "summarizing"
  /\ i \in 1..Len(futures) /\ futures[i].stage = "locked"
  /\ \E r \in {LockScan(futures[i].ids, needs_llm, <<>>)} :
        /\ needs_llm' = r.needs
        /\ futures' = [futures EXCEPT
             ![i].stage = IF r.to_summarize = <<>> THEN "finished" ELSE "calling",
             ![i].to_summarize = r.to_summarize,
             ![i].child_context = ChildContext(r.to_summarize)]
  /\ UNCHANGED <<auxVars, searchVars, envVars, storeVars, objVars, runVars, batch_size, mainPc,
                 in_degree, ready_pool, summarized_ids, processed_count, obsVars>>

\* the main thread: done, futures = wait(futures, FIRST_COMPLETED) and the
\* loop over done, which takes no lock
SchedComplete ==
  /\ pc = "summarizing" /\ mainPc = "wait"
  /\ LET done == {i \in 1..Len(futures) : futures[i].stage = "finished"}
     IN /\ done # {}
        /\ \E order \in Orders(done) :
             \E st \in {Complete(Flatten(order, futures),
                                  [deg |-> in_degree, ready |-> ready_pool,
                                   done |-> summarized_ids, count |-> processed_count])} :
                /\ in_degree' = st.deg
                /\ summarized_ids' = st.done
                /\ processed_count' = st.count
                /\ ready_pool' = st.ready
  /\ futures' = SelectSeq(futures, LAMBDA f : f.stage # "finished")
  /\ mainPc' = "head"
  /\ UNCHANGED <<auxVars, searchVars, envVars, storeVars, objVars, runVars, batch_size, needs_llm,
                 obsVars>>

\* the main thread: the loop condition, then with lock: the drain of the
\* ready pool, which waits for the lock
SchedHead ==
  /\ pc = "summarizing" /\ mainPc = "head"
  /\ (processed_count < Len(UniqueIds(snippets))) => ~LockHeld
  /\ \E head \in {LoopHead(ready_pool, futures, processed_count, batch_size)} :
       /\ ready_pool' = head.ready_pool
       /\ futures' = head.futures
       /\ mainPc' = head.mainPc
       /\ cur' = [cur EXCEPT !.dispatched = @ \cup head.dispatched]
  /\ UNCHANGED <<auxVars, searchVars, envVars, storeVars, objVars, runVars, batch_size, in_degree,
                 needs_llm, summarized_ids, processed_count, run, prev>>

\* ProjectIndexer._propagate_context: parent.summary copied into the
\* metadata of the children that have none yet (one pass reaches the fixpoint
\* of the three, a parent_summary depends on the parent's summary only)
PropagateContext(s) ==
  [k \in 1..Len(s) |->
     IF /\ k = IdToIdx(s, s[k].id)
        /\ s[k].parent # NoId /\ s[k].parent \in Ids(s)
        /\ s[IdToIdx(s, s[k].parent)].summary # 0
        /\ s[k].psum = 0
     THEN [s[k] EXCEPT !.psum = s[IdToIdx(s, s[k].parent)].summary] ELSE s[k]]

EmbedTargets_All(s, changed) == Ids(s)

EmbedTargets_Unsummarized(s, changed) ==
  {s[k].id : k \in {j \in 1..Len(s) : s[j].file \in changed \/ s[j].summary = 0}}

\* [s for s in snippets if s.file_path in self.changed_files]
EmbedTargets(s, changed) == {s[k].id : k \in {j \in 1..Len(s) : s[j].file \in changed}}

\* summarize_snippets after the loop: _propagate_context, then
\* _process_embeddings: every target is queued and embedded by the worker in
\* a batch of its own (embed_batch_size = 1); the worker logs a batch that
\* raises (failed) and caches the vectors of the others
SummarizeFinish ==
  /\ pc = "summarizing" /\ mainPc = "post"
  /\ snippets' = PropagateContext(snippets)
  /\ \E failed \in SUBSET EmbedTargets(snippets, changed_files) :
       /\ Cardinality(failed) <= MaxFaults - faults
       /\ faults' = faults + Cardinality(failed)
       /\ embedding_cache' =
            embedding_cache \cup (EmbedTargets(snippets, changed_files) \ failed)
  /\ cur' = [cur EXCEPT
       !.emb_sent = @ \cup EmbedTargets(snippets, changed_files),
       !.log = @ \cup {[text |-> "Propagating summaries top-down...", ids |-> {}],
                        [text |-> "Summarization and Contextual Embedding completed",
                         ids |-> {}]}
                   \cup (IF embedding_cache' = embedding_cache \cup
                                                 EmbedTargets(snippets, changed_files)
                          THEN {}
                          ELSE {[text |-> "Embedding pipeline error", ids |-> {}]})]
  /\ mainPc' = "done"
  /\ pc' = "summarized"
  /\ UNCHANGED <<auxVars, searchVars, disk, edits, storeVars, storage, changed_files,
                 all_encountered_files, relationships, embeddings, batch_size,
                 in_degree, needs_llm, ready_pool, futures, summarized_ids,
                 processed_count, run, prev>>

\* summarize_snippets of an indexer built with disable_summary: no summary
\* is made, the snippets of the changed files go to the embedding worker
SummarizeDisabled ==
  /\ pc = "related"
  /\ \E failed \in SUBSET EmbedTargets(snippets, changed_files) :
       /\ Cardinality(failed) <= MaxFaults - faults
       /\ faults' = faults + Cardinality(failed)
       /\ embedding_cache' =
            embedding_cache \cup (EmbedTargets(snippets, changed_files) \ failed)
  /\ cur' = [cur EXCEPT
       !.emb_sent = @ \cup EmbedTargets(snippets, changed_files),
       !.log = @ \cup {[text |-> "Pass 3: Summarization disabled. Pipelining embeddings.",
                         ids |-> {}]}
                   \cup (IF embedding_cache' = embedding_cache \cup
                                                 EmbedTargets(snippets, changed_files)
                          THEN {}
                          ELSE {[text |-> "Embedding pipeline error", ids |-> {}]})]
  /\ pc' = "summarized"
  /\ UNCHANGED <<auxVars, searchVars, disk, edits, storeVars, storage, changed_files,
                 all_encountered_files, snippets, relationships, embeddings,
                 schedVars, run, prev>>

(* ------------- the embedding queue, producer and consumer ------------- *)
\* _process_embeddings(snippets, batch_size) is entered with the worker
\* thread running (started by it or, with summaries enabled, by
\* summarize_snippets); the queue is the one of the indexer object
ProcessEmbeddings(list, size) ==
  /\ embedPc \in {"off", "returned"} /\ run < MaxRuns
  /\ run' = run + 1
  /\ to_embed' = list
  /\ embed_batch_size' = size
  /\ embedPc' = "put"
  /\ workerPc' = "get"
  /\ embed_batch' = <<>>
  /\ eobs' = [put |-> <<>>, batches |-> <<>>]
  /\ UNCHANGED <<sqlVars, searchVars, envVars, storeVars, objVars, runVars, schedVars,
                 cur, prev, embedding_queue>>

\* for s in snippets: self._embedding_queue.put(s), then put(None)
Put ==
  /\ embedPc = "put"
  /\ IF to_embed # <<>>
     THEN /\ embedding_queue' = Append(embedding_queue, Head(to_embed))
          /\ to_embed' = Tail(to_embed)
          /\ eobs' = [eobs EXCEPT !.put = Append(@, Head(to_embed))]
          /\ UNCHANGED embedPc
     ELSE /\ embedding_queue' = Append(embedding_queue, NoId)
          /\ embedPc' = "join"
          /\ UNCHANGED <<to_embed, eobs>>
  /\ UNCHANGED <<sqlVars, searchVars, indexVars, embed_batch_size, workerPc, embed_batch>>

Joined_NoWait == TRUE

\* thread_obj.join() returns
Joined == workerPc = "done"

\* _process_embeddings returns after the join
Join ==
  /\ embedPc = "join" /\ Joined
  /\ embedPc' = "returned"
  /\ UNCHANGED <<sqlVars, searchVars, indexVars, embedding_queue, to_embed,
                 embed_batch_size, workerPc, embed_batch, eobs>>

\* _collect_batch: item = self._embedding_queue.get(), which blocks on an
\* empty queue; None ends the worker
WorkerGet ==
  /\ workerPc = "get" /\ embedding_queue # <<>>
  /\ embedding_queue' = Tail(embedding_queue)
  /\ IF Head(embedding_queue) = NoId
     THEN workerPc' = "done" /\ UNCHANGED embed_batch
     ELSE /\ embed_batch' = <<Head(embedding_queue)>>
          /\ workerPc' = IF 1 < embed_batch_size THEN "more" ELSE "embed"
  /\ UNCHANGED <<sqlVars, searchVars, indexVars, to_embed, embed_batch_size, embedPc, eobs>>

RequeueSentinel_Drop(q) == q

\* self._embedding_queue.put(None)  # Re-queue sentinel
RequeueSentinel(q) == Append(q, NoId)

\* _collect_batch, one turn of `while len(batch) < size`: get_nowait()
WorkerGetNowait ==
  /\ workerPc = "more"
  /\ IF embedding_queue = <<>>
     THEN workerPc' = "embed" /\ UNCHANGED <<embedding_queue, embed_batch>>
     ELSE IF Head(embedding_queue) = NoId
     THEN /\ embedding_queue' = RequeueSentinel(Tail(embedding_queue))
          /\ workerPc' = "embed"
          /\ UNCHANGED embed_batch
     ELSE /\ embedding_queue' = Tail(embedding_queue)
          /\ embed_batch' = Append(embed_batch, Head(embedding_queue))
          /\ workerPc' = IF Len(embed_batch) + 1 < embed_batch_size
                         THEN "more" ELSE "embed"
  /\ UNCHANGED <<sqlVars, searchVars, indexVars, to_embed, embed_batch_size, embedPc, eobs>>

\* _run_embedding_worker: embed_snippets(batch, batch_size=len(batch)); the
\* vectors are cached, an error is logged; then the next _collect_batch
WorkerEmbed(ok) ==
  /\ workerPc = "embed"
  /\ eobs' = [eobs EXCEPT !.batches = Append(@, embed_batch)]
  /\ IF ok THEN /\ embedding_cache' =
                     embedding_cache \cup {embed_batch[i] : i \in 1..Len(embed_batch)}
                /\ UNCHANGED faults
     ELSE /\ faults < MaxFaults
          /\ faults' = faults + 1
          /\ UNCHANGED embedding_cache
  /\ embed_batch' = <<>>
  /\ workerPc' = "get"
  /\ UNCHANGED <<sqlVars, searchVars, disk, edits, storeVars, storage, changed_files,
                 all_encountered_files, runVars, schedVars, obsVars, embedding_queue,
                 to_embed, embed_batch_size, embedPc>>

(* ---------------------- Pass 4: embed_snippets ------------------------ *)
\* the snippets embed_snippets still has to embed: not cached, changed file
ToEmbed(s, cache, changed) ==
  {i \in 1..Len(s) : s[i].id \notin cache /\ s[i].file \in changed}

\* ProjectIndexer.embed_snippets; the vector of a snippet is written as the
\* id of the snippet it was computed from, None as NoId
EmbedSnippets(ok) ==
  /\ pc = "summarized"
  /\ LET te == ToEmbed(snippets, embedding_cache, changed_files)
     IN /\ (te = {} => ok)
        /\ IF ok THEN UNCHANGED faults
           ELSE faults < MaxFaults /\ faults' = faults + 1
        /\ embeddings' = [i \in 1..Len(snippets) |->
             IF snippets[i].id \in embedding_cache \/ (i \in te /\ ok)
             THEN snippets[i].id ELSE NoId]
        /\ embedding_cache' =
             IF ok THEN embedding_cache \cup {snippets[i].id : i \in te}
             ELSE embedding_cache
        /\ cur' = [cur EXCEPT !.emb_sent = @ \cup {snippets[i].id : i \in te}]
  /\ pc' = "embedded"
  /\ UNCHANGED <<auxVars, searchVars, disk, edits, storeVars, storage, changed_files,
                 all_encountered_files, snippets, relationships, schedVars,
                 run, prev>>

(* ------------------------------ save ---------------------------------- *)
RECURSIVE SqliteDeleteFiles(_, _)
\* for file_path in ...: self.sqlite.delete_file_snippets(file_path)
SqliteDeleteFiles(rows, fs) ==
  IF fs = {} THEN rows
  ELSE LET f == CHOOSE x \in fs : TRUE
       IN SqliteDeleteFiles(SqliteDeleteRows(rows, f), fs \ {f})

RECURSIVE SqliteDeleteHashes(_, _)
SqliteDeleteHashes(hashes, fs) ==
  IF fs = {} THEN hashes
  ELSE LET f == CHOOSE x \in fs : TRUE
       IN SqliteDeleteHashes(SqliteDeleteHash(hashes, f), fs \ {f})

RECURSIVE GraphDeleteFiles(_, _)
\* for file_path in ...: self.graph_db.delete_file_data(file_path)
GraphDeleteFiles(g, fs) ==
  IF fs = {} THEN g
  ELSE LET f == CHOOSE x \in fs : TRUE
       IN GraphDeleteFiles([nodes |-> GraphDeleteNodes(g.nodes, f),
                            edges |-> GraphDetachEdges(g.nodes, g.edges, f)],
                           fs \ {f})

RECURSIVE ChromaDeleteFiles(_, _)
\* for file_path in ...: self.chroma.delete_file_snippets(file_path)
ChromaDeleteFiles(vecs, fs) ==
  IF fs = {} THEN vecs
  ELSE LET f == CHOOSE x \in fs : TRUE
       IN ChromaDeleteFiles(ChromaDelete(vecs, f), fs \ {f})

\* changed_snippets = [s for s in snippets if s.file_path in changed_files]
ChangedSnippets(s, changed) == SelectSeq(s, LAMBDA x : x.file \in changed)

ValidPairs_All(s, embs, changed) ==
  {[id |-> s[i].id, file |-> s[i].file, vec |-> embs[i]] : i \in 1..Len(s)}

\* valid_pairs: (snippets[i], embeddings[i]) of changed files, not None
ValidPairs(s, embs, changed) ==
  {[id |-> s[i].id, file |-> s[i].file, vec |-> embs[i]] :
     i \in {j \in 1..Len(s) : s[j].file \in changed /\ embs[j] # NoId}}

SaveHashes_Skip(hashes, seen) == hashes

\* for f_path, c_hash in self.all_encountered_files.items(): save_file_hash
SaveHashes(hashes, seen) ==
  [f \in Files |-> IF seen[f] # NoHash THEN seen[f] ELSE hashes[f]]

StoresReady_Always == TRUE

\* all([self.sqlite, self.graph_db, self.chroma]): initialize_storage sets
\* the three together
StoresReady == storage

\* ProjectIndexer.save with the stores initialized, the first loop: the old
\* data of every changed file is deleted from the three stores
SaveClean ==
  /\ pc = "embedded" /\ StoresReady
  /\ LET g1 == GraphDeleteFiles([nodes |-> graphNodes, edges |-> graphEdges],
                                changed_files)
     IN /\ sqliteRows' = SqliteDeleteFiles(sqliteRows, changed_files)
        /\ fileHashes' = SqliteDeleteHashes(fileHashes, changed_files)
        /\ graphNodes' = g1.nodes
        /\ graphEdges' = g1.edges
        /\ chroma' = ChromaDeleteFiles(chroma, changed_files)
        /\ cur' = [cur EXCEPT !.deleted = changed_files]
  /\ pc' = "cleaned"
  /\ UNCHANGED <<auxVars, searchVars, envVars, objVars, snippets, relationships, embeddings, schedVars,
                 run, prev>>

\* ProjectIndexer.save after the deletions: the snippets of the changed
\* files, the vectors, the relationships and the fingerprints are written
Save ==
  /\ pc = "cleaned"
  /\ LET cs == ChangedSnippets(snippets, changed_files)
         rows1 == sqliteRows
         hashes1 == fileHashes
         g1 == [nodes |-> graphNodes, edges |-> graphEdges]
         vecs1 == chroma
         nodes2 == IF cs # <<>> THEN GraphSaveSnippets(g1.nodes, cs) ELSE g1.nodes
         nodes3 == IF relationships # {}
                   THEN GraphPlaceholders(nodes2, relationships) ELSE nodes2
     IN /\ sqliteRows' = IF cs # <<>> THEN SqliteSaveSnippets(rows1, cs) ELSE rows1
        /\ graphNodes' = nodes3
        /\ graphEdges' = IF relationships # {}
                         THEN GraphMergeEdges(nodes3, g1.edges, relationships)
                         ELSE g1.edges
        /\ chroma' = IF cs # <<>> /\ embeddings # <<>>
                        /\ ValidPairs(snippets, embeddings, changed_files) # {}
                     THEN ChromaSave(vecs1, ValidPairs(snippets, embeddings, changed_files))
                     ELSE vecs1
        /\ fileHashes' = SaveHashes(hashes1, all_encountered_files)
        /\ cur' = [cur EXCEPT !.written = Ids(cs), !.saved = TRUE]
  /\ pc' = "saved"
  /\ UNCHANGED <<auxVars, searchVars, envVars, objVars, snippets, relationships, embeddings, schedVars,
                 run, prev>>

\* ProjectIndexer.save before initialize_storage: RuntimeError, the run ends
SaveRaises ==
  /\ pc = "embedded" /\ ~StoresReady
  /\ cur' = [cur EXCEPT !.raised = TRUE]
  /\ pc' = "idle"
  /\ UNCHANGED <<auxVars, searchVars, envVars, storeVars, objVars, snippets, relationships,
                 embeddings, schedVars, run, prev>>

SaveOrder_HashesFirst == <<"hashes", "rows", "nodes", "vectors", "relationships">>

\* the writes of save in the order of the code
SaveOrder == <<"rows", "nodes", "vectors", "relationships", "hashes">>

\* one write of save on the stores st; seen are the fingerprints the last
\* loop gets to write
SaveStep(step, st, seen) ==
  LET cs == ChangedSnippets(snippets, changed_files)
      pairs == ValidPairs(snippets, embeddings, changed_files)
      nodes3 == GraphPlaceholders(st.nodes, relationships)
  IN CASE step = "rows" ->
            [st EXCEPT !.rows = IF cs # <<>> THEN SqliteSaveSnippets(@, cs) ELSE @]
       [] step = "nodes" ->
            [st EXCEPT !.nodes = IF cs # <<>> THEN GraphSaveSnippets(@, cs) ELSE @]
       [] step = "vectors" ->
            [st EXCEPT !.vecs = IF cs # <<>> /\ embeddings # <<>> /\ pairs # {}
                                THEN ChromaSave(@, pairs) ELSE @]
       [] step = "relationships" ->
            IF relationships # {}
            THEN [st EXCEPT !.nodes = nodes3,
                            !.edges = GraphMergeEdges(nodes3, @, relationships)]
            ELSE st
       [] step = "hashes" -> [st EXCEPT !.hashes = SaveHashes(@, seen)]

RECURSIVE SaveSteps(_, _, _)
SaveSteps(steps, st, seen) ==
  IF steps = <<>> THEN st
  ELSE SaveSteps(Tail(steps), SaveStep(Head(steps), st, seen), seen)

\* ProjectIndexer.save ended by an error of a store call: a delete of the
\* primary or of the vector store in the first loop, save_snippets of the
\* primary or of the vector store, or save_file_hash; the graph store logs
\* its errors and returns. What was written before the call stays written,
\* the error goes to the caller of save and the run is over.
SaveAborts ==
  /\ faults < MaxFaults
  /\ faults' = faults + 1
  /\ \/ /\ pc = "embedded" /\ StoresReady
        /\ \E f \in changed_files, done \in SUBSET changed_files,
                 sqliteDone \in BOOLEAN :
             /\ f \notin done
             /\ LET del == IF sqliteDone THEN done \cup {f} ELSE done
                    g1 == GraphDeleteFiles([nodes |-> graphNodes, edges |-> graphEdges],
                                           del)
                IN /\ sqliteRows' = SqliteDeleteFiles(sqliteRows, del)
                   /\ fileHashes' = SqliteDeleteHashes(fileHashes, del)
                   /\ graphNodes' = g1.nodes
                   /\ graphEdges' = g1.edges
                   /\ chroma' = ChromaDeleteFiles(chroma, done)
                   /\ cur' = [cur EXCEPT !.deleted = del, !.raised = TRUE,
                                         !.aborted = "delete"]
     \/ /\ pc = "cleaned"
        /\ \E k \in 1..Len(SaveOrder), seen \in [Files -> {NoHash} \cup
                   {all_encountered_files[f] : f \in Files}] :
             /\ \A f \in Files : seen[f] \in {NoHash, all_encountered_files[f]}
             /\ \/ /\ SaveOrder[k] = "rows"
                   /\ ChangedSnippets(snippets, changed_files) # <<>>
                \/ /\ SaveOrder[k] = "vectors"
                   /\ ChangedSnippets(snippets, changed_files) # <<>>
                   /\ embeddings # <<>>
                   /\ ValidPairs(snippets, embeddings, changed_files) # {}
                \/ /\ SaveOrder[k] = "hashes"
                   /\ seen # all_encountered_files
             /\ SaveOrder[k] # "hashes" => seen = all_encountered_files
             /\ LET st == SaveSteps(SubSeq(SaveOrder, 1, k - 1) \o
                                      (IF SaveOrder[k] = "hashes" THEN <<"hashes">>
                                       ELSE <<>>),
                                    [rows |-> sqliteRows, hashes |-> fileHashes,
                                     nodes |-> graphNodes, edges |-> graphEdges,
                                     vecs |-> chroma],
                                    seen)
                IN /\ sqliteRows' = st.rows
                   /\ fileHashes' = st.hashes
                   /\ graphNodes' = st.nodes
                   /\ graphEdges' = st.edges
                   /\ chroma' = st.vecs
                   /\ cur' = [cur EXCEPT !.raised = TRUE, !.aborted = SaveOrder[k]]
  /\ pc' = "idle"
  /\ UNCHANGED <<auxVars, searchVars, disk, edits, objVars, snippets, relationships, embeddings,
                 schedVars, run, prev>>

\* ProjectIndexer.save while the graph store fails: save_snippets and
\* save_relationships of the graph store log the error of each query and
\* return, save goes on and ends normally
SaveGraphFails ==
  /\ pc = "cleaned"
  /\ faults < MaxFaults
  /\ faults' = faults + 1
  /\ \E lost \in (SUBSET {"nodes", "relationships"}) \ {{}} :
       LET st == SaveSteps(SelectSeq(SaveOrder, LAMBDA x : x \notin lost),
                           [rows |-> sqliteRows, hashes |-> fileHashes,
                            nodes |-> graphNodes, edges |-> graphEdges,
                            vecs |-> chroma],
                           all_encountered_files)
       IN /\ sqliteRows' = st.rows
          /\ fileHashes' = st.hashes
          /\ graphNodes' = st.nodes
          /\ graphEdges' = st.edges
          /\ chroma' = st.vecs
  /\ cur' = [cur EXCEPT !.written = Ids(ChangedSnippets(snippets, changed_files)),
                        !.saved = TRUE]
  /\ pc' = "saved"
  /\ UNCHANGED <<auxVars, searchVars, disk, edits, objVars, snippets, relationships, embeddings,
                 schedVars, run, prev>>

(* ------------------------------ cleanup ------------------------------- *)
\* current_files = {s.file_path for s in current_snippets if s.file_path}
CurrentFiles(s) == FilesOf(s)

CleanupChroma_Skip(vecs, current) == vecs

\* cleanup, the vector store: stored_files - current_files are deleted
CleanupChroma(vecs, current) ==
  ChromaDeleteFiles(vecs, ChromaAllFilePaths(vecs) \ current)

\* cleanup, the graph store
CleanupGraph(g, current) ==
  GraphDeleteFiles(g, GraphAllFilePaths(g.nodes) \ current)

\* cleanup, the primary store (rows and fingerprints)
CleanupSqliteRows(rows, current) ==
  SqliteDeleteFiles(rows, SqliteAllFilePaths(rows) \ current)

CleanupSqliteHashes(rows, hashes, current) ==
  SqliteDeleteHashes(hashes, SqliteAllFilePaths(rows) \ current)

\* ProjectIndexer.cleanup
Cleanup ==
  /\ pc = "saved" /\ storage
  /\ LET current == CurrentFiles(snippets)
         g == CleanupGraph([nodes |-> graphNodes, edges |-> graphEdges], current)
     IN /\ sqliteRows' = CleanupSqliteRows(sqliteRows, current)
        /\ fileHashes' = CleanupSqliteHashes(sqliteRows, fileHashes, current)
        /\ graphNodes' = g.nodes
        /\ graphEdges' = g.edges
        /\ chroma' = CleanupChroma(chroma, current)
  /\ pc' = "idle"
  /\ UNCHANGED <<auxVars, searchVars, envVars, objVars, snippets, relationships, embeddings, schedVars,
                 obsVars>>

\* ProjectIndexer.cleanup(snippets) before initialize_storage, called on the
\* snippets of the run in place of save: if not self.sqlite: return
CleanupReturns ==
  /\ pc = "embedded" /\ ~storage
  /\ cur' = [cur EXCEPT !.silent = TRUE]
  /\ pc' = "idle"
  /\ UNCHANGED <<auxVars, searchVars, envVars, storeVars, objVars, snippets, relationships,
                 embeddings, schedVars, run, prev>>

(* --------------------------- environment ------------------------------ *)
\* ProjectIndexer.initialize_storage
InitializeStorage ==
  /\ pc = "idle" /\ ~storage
  /\ storage' = TRUE
  /\ UNCHANGED <<auxVars, searchVars, envVars, storeVars, changed_files, all_encountered_files,
                 embedding_cache, runVars, schedVars, obsVars>>

\* between two runs a file is edited (another content) or deleted (0)
EditFile(f, v) ==
  /\ pc = "idle" /\ edits < MaxEdits
  /\ v # disk[f]
  /\ disk' = [disk EXCEPT ![f] = v]
  /\ edits' = edits + 1
  /\ UNCHANGED <<auxVars, searchVars, faults, storeVars, objVars, runVars, schedVars, obsVars>>

(* ------------------------------ search -------------------------------- *)
\* _fuse_results(self, vector_results, keyword_results, k: int = 60)
RrfK == 60

\* to_rerank_count = max(n_results * 10, 100)
ToRerankCount(n) == IF n * 10 > 100 THEN n * 10 ELSE 100

\* s[:n]
Take(s, n) == SubSeq(s, 1, IF n < Len(s) THEN n ELSE Len(s))

\* a query string is written as the set of its terms
\* (re.findall(r'[a-zA-Z0-9_\.]+', query) in search_by_content)
OriginalQuery == {"foo"}

\* Orchestrator.process_query(query): the query itself or a rewritten one
Rewrites == {{"foo"}, {"foo", "bar"}, {"bar"}}

\* SQLiteStorage.search_by_content(query, limit): the rows whose name is a
\* term of the query, one entry per id (results_map), at most limit of them
SearchByContent(rows, q, limit) ==
  LET hits == SelectSeq(rows, LAMBDA r : r.name \in q)
  IN Take([i \in 1..Len(hits) |-> hits[i].id], limit)

\* ChromaStorage.query(embedding, n_results): the ids of the collection
\* ranked by distance to the query embedding; any ranking can come back
ChromaQuery(vecs, limit) == {Take(o, limit) : o \in Orders({x.id : x \in vecs})}

RECURSIVE AppendUnseen(_, _)
\* for s in results: if s.id not in seen_ids: append, seen_ids.add(s.id)
\* (and the keys of a dict in order of first insertion)
AppendUnseen(acc, s) ==
  IF s = <<>> THEN acc
  ELSE AppendUnseen(IF \E i \in 1..Len(acc) : acc[i] = Head(s)
                    THEN acc ELSE Append(acc, Head(s)),
                    Tail(s))

\* SearchManager._orchestrate_query
OrchestrateQuery(q) == IF orchestrator THEN Rewrites ELSE {q}

HydeIssued_Always(used) == TRUE

\* if hyde_used and self.sqlite: the second keyword search is submitted
HydeIssued(used) == used /\ storage

\* SearchManager.search, the retrieval block (with ThreadPoolExecutor ...):
\* the results are read in a fixed order, whatever order the threads ran in
SearchRetrieve ==
  /\ searchPc = "start" /\ storage
  /\ \E fq \in OrchestrateQuery(query) :
     \E vec \in ChromaQuery(chroma, ToRerankCount(n_results)) :
       LET limit == ToRerankCount(n_results)
           used == orchestrator /\ fq # query
           kw == IF storage THEN SearchByContent(sqliteRows, query, limit) ELSE <<>>
           hkw == IF HydeIssued(used)
                  THEN SearchByContent(sqliteRows, fq, limit) ELSE <<>>
       IN /\ final_query' = fq
          /\ hyde_used' = used
          /\ vector_results' = vec
          /\ keyword_results_list' = AppendUnseen(AppendUnseen(<<>>, kw), hkw)
          /\ sobs' = [sobs EXCEPT !.keyword = kw, !.hyde_keyword = hkw,
                                  !.hyde_issued = HydeIssued(used)]
  /\ searchPc' = "retrieved"
  /\ UNCHANGED <<auxVars, indexVars, orchestrator, reranker, query, n_results, sorted_ids,
                 final_results>>

\* SearchManager.search when a retrieval raises: chroma.query and
\* embed_text have no handler, search_by_content catches the errors of its
\* FTS statements only, and future.result() re-raises in search, which has
\* no try block; the exception leaves search
SearchRaises ==
  /\ searchPc = "start" /\ storage
  /\ faults < MaxFaults
  /\ faults' = faults + 1
  /\ searchPc' = "raised"
  /\ UNCHANGED <<auxVars, disk, edits, storeVars, objVars, runVars, schedVars, obsVars,
                 orchestrator, reranker, query, n_results, final_query, hyde_used,
                 vector_results, keyword_results_list, sorted_ids, final_results,
                 sobs>>

RECURSIVE RankDen(_)
\* the common denominator of 1/(k + rank) for the ranks 1..n
RankDen(n) == IF n = 0 THEN 1 ELSE (RrfK + n) * RankDen(n - 1)

RECURSIVE ListScore(_, _, _, _)
\* for rank, res in enumerate(results, 1): += 1.0 / (k + rank) for the id,
\* as the exact fraction over den
ListScore(s, id, rank, den) ==
  IF s = <<>> THEN 0
  ELSE (IF Head(s) = id THEN den \div (RrfK + rank) ELSE 0)
       + ListScore(Tail(s), id, rank + 1, den)

\* the denominator that serves both lists
FuseDen(vec, kw) == RankDen(IF Len(vec) > Len(kw) THEN Len(vec) ELSE Len(kw))

\* combined_scores[id], times FuseDen(vec, kw)
CombinedScore(id, vec, kw) ==
  ListScore(vec, id, 1, FuseDen(vec, kw)) + ListScore(kw, id, 1, FuseDen(vec, kw))

SortedByScore_Unsorted(keys, vec, kw) == keys

\* sorted(combined_scores.keys(), key=..., reverse=True): stable, the keys of
\* equal score keep their insertion order
SortedByScore(keys, vec, kw) ==
  LET sc == [i \in 1..Len(keys) |-> CombinedScore(keys[i], vec, kw)]
      pos(i) == 1 + Cardinality({j \in 1..Len(keys) :
                                   sc[j] > sc[i] \/ (sc[j] = sc[i] /\ j < i)})
  IN [p \in 1..Len(keys) |-> keys[CHOOSE i \in 1..Len(keys) : pos(i) = p]]

\* SearchManager._fuse_results
FuseResults(vec, kw) ==
  SortedByScore(AppendUnseen(AppendUnseen(<<>>, vec), kw), vec, kw)

\* sorted_ids = self._fuse_results(vector_results, keyword_results_list)
SearchFuse ==
  /\ searchPc = "retrieved"
  /\ sorted_ids' = FuseResults(vector_results, keyword_results_list)
  /\ searchPc' = "fused"
  /\ UNCHANGED <<auxVars, indexVars, orchestrator, reranker, query, n_results, final_query,
                 hyde_used, vector_results, keyword_results_list, final_results,
                 sobs>>

HydrateCandidates_All(top_ids, rows) == top_ids

\* snippet_map = self.sqlite.get_snippets(top_ids); for sid in top_ids:
\* if not snippet: continue
HydrateCandidates(top_ids, rows) == SelectSeq(top_ids, LAMBDA id : id \in Ids(rows))

RECURSIVE InjSeqs(_, _)
InjSeqs(S, n) ==
  IF n = 0 THEN {<<>>}
  ELSE UNION {{<<x>> \o o : o \in InjSeqs(S \ {x}, n - 1)} : x \in S}

\* JinaReranker.rerank(query, docs, top_n): the indices of the documents by
\* descending score, cut to top_n; the scores are the model's, any order can
\* come back (the first top_n indices when scoring raises)
RerankOutputs(n, top_n) == InjSeqs(1..n, IF top_n < n THEN top_n ELSE n)

\* SearchManager._hydrate_and_rerank(sorted_ids[:to_rerank_count], ...)
SearchHydrate ==
  /\ searchPc = "fused"
  /\ LET cands == IF storage
                  THEN HydrateCandidates(Take(sorted_ids, ToRerankCount(n_results)),
                                         sqliteRows)
                  ELSE <<>>
     IN IF reranker /\ cands # <<>>
        THEN \E meta \in RerankOutputs(Len(cands), n_results) :
               /\ final_results' = [i \in 1..Len(meta) |-> cands[meta[i]]]
               /\ sobs' = [sobs EXCEPT !.reranked_meta = meta]
        ELSE /\ final_results' = Take(cands, n_results)
             /\ UNCHANGED sobs
  /\ searchPc' = "done"
  /\ UNCHANGED <<auxVars, indexVars, orchestrator, reranker, query, n_results, final_query,
                 hyde_used, vector_results, keyword_results_list, sorted_ids>>

(* -------------------------- specifications ---------------------------- *)
InitSobs ==
  [keyword |-> <<>>, hyde_keyword |-> <<>>, hyde_issued |-> FALSE,
   reranked_meta |-> <<>>]

\* no search is under way
\* no _process_embeddings call is running, the queue is empty
QueueOff ==
  /\ embedding_queue = <<>> /\ to_embed = <<>> /\ embed_batch_size = 1
  /\ embedPc = "off" /\ workerPc = "off" /\ embed_batch = <<>>
  /\ eobs = [put |-> <<>>, batches |-> <<>>]

\* no call of the primary store is running
SqlOff ==
  /\ sqlPc = "off" /\ sql_op = [name |-> "none", file |-> "", snippets |-> <<>>]
  /\ retry_count = 0
  /\ sqlobs = [attempts |-> 0, rebuilds |-> 0, errors |-> <<>>]

SearchOff ==
  /\ searchPc = "off" /\ orchestrator = FALSE /\ reranker = FALSE
  /\ query = OriginalQuery /\ n_results = 1
  /\ final_query = OriginalQuery /\ hyde_used = FALSE
  /\ vector_results = <<>> /\ keyword_results_list = <<>>
  /\ sorted_ids = <<>> /\ final_results = <<>> /\ sobs = InitSobs

InitCur ==
  [parsed |-> {}, reused |-> {}, parseFailed |-> {}, extracted |-> {},
   llm_sent |-> {}, emb_sent |-> {}, needs0 |-> {}, dispatched |-> {},
   rows0 |-> <<>>, hashes0 |-> [f \in Files |-> NoHash], nodes0 |-> {},
   edges0 |-> {}, chroma0 |-> {},
   deleted |-> {}, written |-> {}, saved |-> FALSE,
   raised |-> FALSE, silent |-> FALSE, sum0 |-> {}, failed |-> {},
   log |-> {}, aborted |-> "none"]

InitPrev ==
  [seen |-> [f \in Files |-> NoHash], ids |-> {}, parseFailed |-> {},
   complete |-> FALSE]

\* a new ProjectIndexer on a tree with both files, an empty data directory
Init ==
  /\ disk = [f \in Files |-> 1] /\ edits = 0 /\ faults = 0
  /\ sqliteRows = <<>> /\ fileHashes = [f \in Files |-> NoHash]
  /\ graphNodes = {} /\ graphEdges = {} /\ chroma = {}
  /\ storage = FALSE /\ changed_files = {}
  /\ all_encountered_files = [f \in Files |-> NoHash]
  /\ embedding_cache = {}
  /\ pc = "idle" /\ snippets = <<>> /\ relationships = {} /\ embeddings = <<>>
  /\ batch_size = 1 /\ mainPc = "off" /\ in_degree = <<>> /\ needs_llm = {} /\ ready_pool = <<>>
  /\ futures = <<>> /\ summarized_ids = {} /\ processed_count = 0
  /\ run = 0 /\ cur = InitCur /\ prev = InitPrev
  /\ SearchOff /\ QueueOff /\ SqlOff

\* the steps of summarize_snippets after its set-up: the main thread's loop
\* and the batch threads of the pool
SchedStep ==
  \/ \E i \in 1..Len(futures) : ProcessBatchLock(i)
  \/ \E i \in 1..Len(futures), ok \in BOOLEAN : SummarizeBatch(i, ok)
  \/ SchedWait
  \/ SummarizeFinish

Next ==
  \/ InitializeStorage
  \/ \E f \in Files, v \in 0..MaxVersion : EditFile(f, v)
  \/ ExtractSnippets
  \/ ExtractRelationships
  \/ SummarizeStart(DefaultBatchSize)
  \/ SchedStep
  \/ \E ok \in BOOLEAN : EmbedSnippets(ok)
  \/ SaveClean
  \/ Save
  \/ SaveRaises
  \/ Cleanup
  \/ CleanupReturns

Spec == Init /\ [][Next]_vars

\* the runs of the indexer with store calls that may fail during save
CrashNext ==
  \/ Next
  \/ SaveAborts
  \/ SaveGraphFails

CrashSpec == Init /\ [][CrashNext]_vars

\* the snippet lists summarize_snippets is given in SchedSpec
SchedId(i) == <<IF i = 1 THEN "a.py" ELSE "b.py", "s", i>>

SchedSnippets(par, sum) ==
  [i \in 1..MaxSnippets |->
     [id |-> SchedId(i), name |-> "s", type |-> "function",
      file |-> SchedId(i)[1],
      parent |-> IF par[i] = 0 THEN NoId ELSE SchedId(par[i]),
      summary |-> sum[i], psum |-> 0]]

\* summarize_snippets is entered from extract_relationships of a run whose
\* changed file is a.py
SchedBase ==
  /\ disk = [f \in Files |-> 1] /\ edits = 0 /\ faults = 0
  /\ sqliteRows = <<>> /\ fileHashes = [f \in Files |-> NoHash]
  /\ graphNodes = {} /\ graphEdges = {} /\ chroma = {}
  /\ storage = TRUE
  /\ changed_files = {"a.py"}
  /\ all_encountered_files = [f \in Files |-> NoHash]
  /\ embedding_cache = {}
  /\ pc = "related" /\ relationships = {} /\ embeddings = <<>>
  /\ batch_size = 1 /\ mainPc = "off" /\ in_degree = <<>> /\ needs_llm = {} /\ ready_pool = <<>>
  /\ futures = <<>> /\ summarized_ids = {} /\ processed_count = 0
  /\ run = 1 /\ cur = InitCur /\ prev = InitPrev
  /\ SearchOff /\ QueueOff /\ SqlOff

\* every parent assignment inside the list, self-parents and cycles included
ParentMaps == [1..MaxSnippets -> 0..MaxSnippets]

\* the snippet of the changed file is freshly parsed (no summary); a reused
\* snippet of b.py comes back from the primary store with or without one
Summaries == {sum \in [1..MaxSnippets -> {0, 1}] : sum[1] = 0}

SchedInit ==
  /\ SchedBase
  /\ \E par \in ParentMaps, sum \in Summaries : snippets = SchedSnippets(par, sum)

\* summarize_snippets called with any batch size of 1..MaxBatch
SchedNext ==
  \/ \E size \in 1..MaxBatch : SummarizeStart(size)
  \/ SchedStep

SchedSpec == SchedInit /\ [][SchedNext]_vars

RECURSIVE Ancestors(_, _)
\* the snippets reached from x by one to n parent links inside the set
Ancestors(x, n) ==
  IF n = 0 \/ ~HasParentInSet(x) THEN {}
  ELSE {Snip(x).parent} \cup Ancestors(Snip(x).parent, n - 1)

SelfParent(x) == HasParentInSet(x) /\ Snip(x).parent = x

\* x lies on a cycle of parent links (a self-parent is a cycle of length 1)
OnCycle(x) == x \in Ancestors(x, Len(snippets))

HasCycle == \E x \in Ids(snippets) : OnCycle(x)

\* the snippet lists with a self-parent or a cycle of parent links, freshly
\* parsed: no snippet has a summary yet
CycleInit ==
  /\ SchedBase
  /\ \E par \in ParentMaps :
       snippets = SchedSnippets(par, [i \in 1..MaxSnippets |-> 0])
  /\ HasCycle

CycleNext == SchedNext

CycleSpec == CycleInit /\ [][CycleNext]_vars

\* the thread pool runs every submitted batch and the main thread is never
\* starved: a step that stays possible is taken
FairCycleSpec == CycleSpec /\ WF_vars(CycleNext)

LockNext ==
  \/ \E size \in 1..MaxBatch : SummarizeStart(size)
  \/ \E i \in 1..Len(futures) : LockAcquire(i)
  \/ \E i \in 1..Len(futures) : ProcessBatchLocked(i)
  \/ \E i \in 1..Len(futures), ok \in BOOLEAN : SummarizeBatch(i, ok)
  \/ SchedComplete
  \/ SchedHead
  \/ SummarizeFinish

LockSpec == SchedInit /\ [][LockNext]_vars

\* summarize_snippets of an indexer built with or without disable_summary
EmbedNext ==
  \/ SchedNext
  \/ SummarizeDisabled

EmbedSpec == SchedInit /\ [][EmbedNext]_vars

\* summarize_snippets on a freshly parsed list in which any snippet after
\* the first may carry the id of the first one again (duplicate ids), with
\* every parent assignment
DispatchInit ==
  /\ SchedBase
  /\ \E par \in ParentMaps, dup \in [1..MaxSnippets -> BOOLEAN] :
       /\ ~dup[1]
       /\ snippets =
            [i \in 1..MaxSnippets |->
               IF dup[i]
               THEN [SchedSnippets(par, [k \in 1..MaxSnippets |-> 0])[i]
                       EXCEPT !.id = SchedId(1), !.file = SchedId(1)[1]]
               ELSE SchedSnippets(par, [k \in 1..MaxSnippets |-> 0])[i]]

DispatchSpec == DispatchInit /\ [][SchedNext]_vars

\* summarize_snippets on any freshly parsed snippet list, with or without
\* cycles of parent links
TermInit ==
  /\ SchedBase
  /\ \E par \in ParentMaps :
       snippets = SchedSnippets(par, [i \in 1..MaxSnippets |-> 0])

TermNext == SchedNext

TermSpec == TermInit /\ [][TermNext]_vars

\* every batch call returns and the main thread is scheduled
FairTermSpec == TermSpec /\ WF_vars(TermNext)

\* the names the relationship candidates of the tree refer to
DeclNames == {"foo", "Bar"}

\* a snippet list in which several snippets of either file declare the same
\* name, as functions (entered in the symbol table) or methods (not entered)
DeclSnippets(names, types, files) ==
  [i \in 1..MaxSnippets |->
     Snippet(<<files[i], names[i], i>>, names[i], types[i], files[i], NoId)]

\* extract_relationships(snippets) after an extract_snippets that found any
\* set of the files changed
GraphInit ==
  /\ disk = [f \in Files |-> 1] /\ edits = 0 /\ faults = 0
  /\ sqliteRows = <<>> /\ fileHashes = [f \in Files |-> NoHash]
  /\ graphNodes = {} /\ graphEdges = {} /\ chroma = {}
  /\ storage = TRUE
  /\ changed_files \in SUBSET Files
  /\ all_encountered_files = [f \in Files |-> NoHash]
  /\ embedding_cache = {}
  /\ pc = "extracted" /\ relationships = {} /\ embeddings = <<>>
  /\ \E names \in [1..MaxSnippets -> DeclNames],
        types \in [1..MaxSnippets -> {"function", "method"}],
        files \in [1..MaxSnippets -> Files] :
       snippets = DeclSnippets(names, types, files)
  /\ batch_size = 1 /\ mainPc = "off" /\ in_degree = <<>> /\ needs_llm = {}
  /\ ready_pool = <<>> /\ futures = <<>> /\ summarized_ids = {}
  /\ processed_count = 0
  /\ run = 1 /\ cur = InitCur /\ prev = InitPrev
  /\ SearchOff /\ QueueOff /\ SqlOff

GraphNext == ExtractRelationships

GraphSpec == GraphInit /\ [][GraphNext]_vars

\* the documents of the stores a search runs against
DocId(i) == <<"a.py", "doc", i>>

DocNames == {"", "foo", "bar"}

\* the rows of the primary store: document i has a row with the name
\* names[i], or no row when names[i] = ""
DocRows(names) ==
  LET with == SelectSeq([i \in 1..MaxDocs |-> i], LAMBDA i : names[i] # "")
  IN [k \in 1..Len(with) |->
        Snippet(DocId(with[k]), names[with[k]], "function", "a.py", NoId)]

DocVectors(vs) == {[id |-> DocId(i), file |-> "a.py", vec |-> DocId(i)] : i \in vs}

\* the indexer at rest with its stores set up and nothing else in them
IndexAtRest ==
  /\ disk = [f \in Files |-> 1] /\ edits = 0 /\ faults = 0
  /\ fileHashes = [f \in Files |-> NoHash]
  /\ graphNodes = {} /\ graphEdges = {}
  /\ storage = TRUE /\ changed_files = {}
  /\ all_encountered_files = [f \in Files |-> NoHash]
  /\ embedding_cache = {}
  /\ pc = "idle" /\ snippets = <<>> /\ relationships = {} /\ embeddings = <<>>
  /\ batch_size = 1 /\ mainPc = "off" /\ in_degree = <<>> /\ needs_llm = {}
  /\ ready_pool = <<>> /\ futures = <<>> /\ summarized_ids = {}
  /\ processed_count = 0
  /\ run = 0 /\ cur = InitCur /\ prev = InitPrev

\* SearchManager(indexer, orchestrator, use_reranker).search(query, n_results)
\* on stores that hold any rows and vectors of MaxDocs documents
SearchInit ==
  /\ IndexAtRest /\ QueueOff /\ SqlOff
  /\ \E names \in [1..MaxDocs -> DocNames] : sqliteRows = DocRows(names)
  /\ \E vs \in SUBSET (1..MaxDocs) : chroma = DocVectors(vs)
  /\ searchPc = "start"
  /\ orchestrator \in BOOLEAN /\ reranker \in BOOLEAN
  /\ query = OriginalQuery /\ n_results \in 1..MaxK
  /\ final_query = OriginalQuery /\ hyde_used = FALSE
  /\ vector_results = <<>> /\ keyword_results_list = <<>>
  /\ sorted_ids = <<>> /\ final_results = <<>> /\ sobs = InitSobs

SearchNext ==
  \/ SearchRetrieve
  \/ SearchRaises
  \/ SearchFuse
  \/ SearchHydrate

SearchSpec == SearchInit /\ [][SearchNext]_vars

\* one execution of the body of save_snippets(snippets, _retry_count) or
\* delete_file_snippets(file_path, _retry_count) with its except clause. The
\* statement succeeds (err.class = "none") or raises an error of the sqlite3
\* module: an OperationalError or a DatabaseError that is none, with or
\* without "malformed" in its message. _rebuild_fts_index logs its own
\* failure, so the retry follows in either case.
SqlAttempt(err) ==
  /\ sqlPc = "try"
  /\ sqlobs' = [attempts |-> sqlobs.attempts + 1,
                rebuilds |-> IF /\ err.class = "OperationalError" /\ err.malformed
                                /\ retry_count < 1
                             THEN sqlobs.rebuilds + 1 ELSE sqlobs.rebuilds,
                errors |-> Append(sqlobs.errors, err)]
  /\ IF err.class = "none"
     THEN /\ ~err.malformed
          /\ sqliteRows' = IF sql_op.name = "save"
                           THEN SqliteSaveSnippets(sqliteRows, sql_op.snippets)
                           ELSE SqliteDeleteRows(sqliteRows, sql_op.file)
          /\ fileHashes' = IF sql_op.name = "save" THEN fileHashes
                           ELSE SqliteDeleteHash(fileHashes, sql_op.file)
          /\ sqlPc' = "returned"
          /\ UNCHANGED <<retry_count, faults>>
     ELSE /\ faults < MaxFaults
          /\ faults' = faults + 1
          /\ UNCHANGED <<sqliteRows, fileHashes>>
          /\ IF err.class = "OperationalError" /\ err.malformed /\ retry_count < 1
             THEN retry_count' = retry_count + 1 /\ sqlPc' = "try"
             ELSE sqlPc' = "raised" /\ UNCHANGED retry_count
  /\ UNCHANGED <<queueVars, searchVars, disk, edits, graphNodes, graphEdges, chroma,
                 objVars, runVars, schedVars, obsVars, sql_op>>

\* save_snippets(snippets) with a non-empty list or delete_file_snippets(f),
\* called on a primary store that holds any rows of MaxDocs documents
SqlInit ==
  /\ IndexAtRest /\ SearchOff /\ QueueOff
  /\ chroma = {}
  /\ \E names \in [1..MaxDocs -> DocNames] : sqliteRows = DocRows(names)
  /\ sqlPc = "try" /\ retry_count = 0
  /\ sqlobs = [attempts |-> 0, rebuilds |-> 0, errors |-> <<>>]
  /\ \/ \E names \in [1..MaxDocs -> DocNames] :
          /\ DocRows(names) # <<>>
          /\ sql_op = [name |-> "save", file |-> "", snippets |-> DocRows(names)]
     \/ \E f \in Files : sql_op = [name |-> "delete", file |-> f, snippets |-> <<>>]

SqlNext ==
  \E class \in {"none", "OperationalError", "DatabaseError"}, malformed \in BOOLEAN :
    SqlAttempt([class |-> class, malformed |-> malformed])

SqlSpec == SqlInit /\ [][SqlNext]_vars

\* _process_embeddings called on one indexer, run after run, with any list
\* of up to MaxSnippets snippets and any batch size of 1..MaxBatch
QueueInit ==
  /\ IndexAtRest /\ SearchOff /\ SqlOff /\ QueueOff
  /\ sqliteRows = <<>> /\ chroma = {}

QueueNext ==
  \/ \E n \in 0..MaxSnippets, size \in 1..MaxBatch :
       ProcessEmbeddings([i \in 1..n |-> SchedId(i)], size)
  \/ Put
  \/ Join
  \/ WorkerGet
  \/ WorkerGetNowait
  \/ \E ok \in BOOLEAN : WorkerEmbed(ok)

QueueSpec == QueueInit /\ [][QueueNext]_vars

\* the worker thread is scheduled and the embedding call returns
FairQueueSpec ==
  QueueSpec /\ WF_vars(WorkerGet \/ WorkerGetNowait \/ \E ok \in BOOLEAN : WorkerEmbed(ok))

\* the candidate lists _fuse_results is given: no id twice in a list, at
\* most MaxRank entries each
RankedLists == UNION {InjSeqs({DocId(i) : i \in 1..(MaxRank + 1)}, n) : n \in 0..MaxRank}

FuseInit ==
  /\ IndexAtRest /\ QueueOff /\ SqlOff
  /\ sqliteRows = <<>> /\ chroma = {}
  /\ searchPc = "retrieved"
  /\ orchestrator = FALSE /\ reranker = FALSE
  /\ query = OriginalQuery /\ n_results = 1
  /\ final_query = OriginalQuery /\ hyde_used = FALSE
  /\ vector_results \in RankedLists /\ keyword_results_list \in RankedLists
  /\ sorted_ids = <<>> /\ final_results = <<>> /\ sobs = InitSobs

FuseNext == SearchFuse

FuseSpec == FuseInit /\ [][FuseNext]_vars

(* ------------------------- observations ------------------------------- *)
\* the run observed in cur has finished save and cleanup
RunDone == pc = "idle" /\ cur.saved

\* f was met by the walk of this run with the hash the previous run met
Unchanged(f) ==
  all_encountered_files[f] # NoHash /\ prev.seen[f] = all_encountered_files[f]

\* f was met by both walks, with different hashes
Edited(f) ==
  /\ all_encountered_files[f] # NoHash /\ prev.seen[f] # NoHash
  /\ prev.seen[f] # all_encountered_files[f]

IdsOfFile(s, f) == {s[i].id : i \in {j \in 1..Len(s) : s[j].file = f}}

NodesOfFile(nodes, f) == {n \in nodes : n.file = f}

\* every row of f that was persisted when the run started has a summary
Summarized0(f) ==
  \A i \in 1..Len(cur.rows0) : cur.rows0[i].file = f => cur.rows0[i].summary # 0

\* the rows of f in the primary and graph stores were left alone by the run
Untouched(f) ==
  /\ f \notin cur.deleted
  /\ IdsOfFile(snippets, f) \cap cur.written = {}
  /\ GetFileSnippets(sqliteRows, f) = GetFileSnippets(cur.rows0, f)
  /\ NodesOfFile(graphNodes, f) = NodesOfFile(cur.nodes0, f)

(* ------------------------------ claims -------------------------------- *)
\* C1 (as stated): in the second of two consecutive runs, a file whose hash
\* is the same in both gets no parser call, no relationship extraction and
\* no summarization call for its snippets, and its rows in the primary and
\* graph stores are neither deleted nor rewritten.
C1_Original ==
  prev.complete =>
    \A f \in Files : Unchanged(f) =>
      /\ f \notin cur.parsed
      /\ f \notin cur.extracted
      /\ IdsOfFile(snippets, f) \cap cur.llm_sent = {}
      /\ Untouched(f)

\* C1 (amended): as C1, but the summarization collaborator is left alone
\* only for a file all of whose persisted snippets already have a summary;
\* a snippet persisted without one is summarized again, with its ancestors.
C1_CacheCorrectness ==
  prev.complete =>
    \A f \in Files : Unchanged(f) =>
      /\ f \notin cur.parsed
      /\ f \notin cur.extracted
      /\ (Summarized0(f) => IdsOfFile(snippets, f) \cap cur.llm_sent = {})
      /\ Untouched(f)

C1_Witness ==
  /\ RunDone /\ prev.complete
  /\ \E f \in Files :
       /\ Unchanged(f) /\ Summarized0(f)
       /\ GetFileSnippets(cur.rows0, f) # <<>>
       /\ f \in cur.reused
  /\ cur.llm_sent # {}

\* the walk of this run met exactly the files of the previous run, unchanged
SameTree == \A f \in Files : prev.seen[f] = all_encountered_files[f]

\* C2 (as stated): the second of two runs against an unchanged tree yields
\* the snippet ids of the first, makes no call to the summarization
\* collaborator and leaves the fingerprint table as the first run left it.
C2_Original ==
  (RunDone /\ prev.complete /\ SameTree) =>
    /\ Ids(snippets) = prev.ids
    /\ cur.llm_sent = {}
    /\ fileHashes = cur.hashes0

\* C2 (amended): as C2, with zero summarization calls provided the first run
\* left no persisted snippet without a summary.
C2_Idempotence ==
  (RunDone /\ prev.complete /\ SameTree) =>
    /\ Ids(snippets) = prev.ids
    /\ ((\A f \in Files : Summarized0(f)) => cur.llm_sent = {})
    /\ fileHashes = cur.hashes0

C2_Witness ==
  /\ RunDone /\ prev.complete /\ SameTree
  /\ Len(snippets) >= 5
  /\ \A f \in Files : Summarized0(f)
  /\ \A f \in Files : fileHashes[f] # NoHash

\* C3 (as stated): a file met by the walk is reused, and not parsed, exactly
\* when its stored fingerprint equals the fresh hash; otherwise it is parsed
\* and added to changed_files, so changed_files is exactly the set of met
\* files whose stored fingerprint differs from the fresh hash.
C3_Original ==
  run >= 1 =>
    LET met == {f \in Files : all_encountered_files[f] # NoHash}
        equal == {f \in met : cur.hashes0[f] = all_encountered_files[f]}
    IN /\ cur.reused = equal
       /\ cur.parsed = met \ equal
       /\ changed_files = met \ equal

\* the children of p as the claims name them: the other snippets of the set
\* whose parent_id is p
ChildrenOf(p) == {c \in Ids(snippets) : c # p /\ Snip(c).parent = p}

InFlight == UNION {{futures[i].ids[k] : k \in 1..Len(futures[i].ids)} : i \in 1..Len(futures)}

\* C4: a snippet is in a batch only after every one of its children has
\* completed, so no batch in flight holds a child of a snippet that is in a
\* batch in flight.
C4_BottomUp ==
  \A m \in InFlight :
    /\ ChildrenOf(m) \subseteq summarized_ids
    /\ ChildrenOf(m) \cap InFlight = {}

C4_Witness ==
  /\ \E m \in InFlight : ChildrenOf(m) # {}
  /\ Len(futures) >= 2
  /\ \A i \in 1..Len(futures) : futures[i].stage = "calling"

\* the ancestors of x up to its root, when the chain of x ends at a root:
\* a snippet without a parent in the set, or a self-parent
RootedAncestors(x) ==
  IF \A a \in {x} \cup Ancestors(x, Len(snippets)) : ~OnCycle(a) \/ SelfParent(a)
  THEN IF SelfParent(x) THEN {} ELSE Ancestors(x, Len(snippets))
  ELSE {}

LoopExited == mainPc \in {"post", "done"}

\* C5: when the loop has ended, every ancestor, up to the root, of a snippet
\* that was seeded as needing a summary is marked as needing one and was
\* passed to the summarization collaborator.
C5_Propagation ==
  LoopExited =>
    \A s \in cur.needs0 : \A a \in RootedAncestors(s) :
      a \in needs_llm /\ a \in cur.llm_sent

C5_Witness ==
  /\ LoopExited
  /\ \E s \in cur.needs0 : \E a \in RootedAncestors(s) :
       /\ a \notin cur.needs0 /\ a \in cur.llm_sent
       /\ \E b \in RootedAncestors(a) : b \notin cur.needs0 /\ b \in cur.llm_sent

\* C6: on a snippet set with a self-parent or a mutual-parent cycle the
\* scheduling loop ends, and when it has ended every snippet that was never
\* dispatched is on a cycle and every snippet off the cycles has completed.
C6_CycleSafety ==
  /\ HasCycle => <>LoopExited
  /\ [](HasCycle /\ LoopExited =>
          \A x \in Ids(snippets) :
            /\ x \notin cur.dispatched => OnCycle(x)
            /\ ~OnCycle(x) => x \in summarized_ids)

C6_Witness ==
  /\ LoopExited
  /\ \E x \in Ids(snippets) : x \notin cur.dispatched /\ OnCycle(x) /\ ~SelfParent(x)
  /\ \E x \in Ids(snippets) : x \in summarized_ids /\ x \in cur.llm_sent

\* the run has passed embed_snippets
Embedded == pc \in {"embedded", "cleaned", "saved"} \/ RunDone

\* C7 (as stated): when file A is unchanged and only file B was edited, the
\* snippets sent to the summarization collaborator and those sent to the
\* embedding collaborator in the second run are exactly the snippets of B.
C7_Original ==
  (Embedded /\ prev.complete) =>
    \A a, b \in Files : (Unchanged(a) /\ Edited(b)) =>
      /\ cur.llm_sent = IdsOfFile(snippets, b)
      /\ cur.emb_sent = IdsOfFile(snippets, b)

\* C7 (amended): as C7, provided every snippet of A persisted by the first
\* run has a summary; a snippet of A persisted without one is summarized
\* again (with its ancestors), it is not embedded again.
C7_IncrementalScope ==
  (Embedded /\ prev.complete) =>
    \A a, b \in Files : (Unchanged(a) /\ Edited(b)) =>
      /\ (Summarized0(a) => cur.llm_sent = IdsOfFile(snippets, b))
      /\ cur.emb_sent = IdsOfFile(snippets, b)

C7_Witness ==
  /\ Embedded /\ prev.complete
  /\ \E a, b \in Files :
       /\ Unchanged(a) /\ Edited(b) /\ Summarized0(a)
       /\ IdsOfFile(snippets, a) # {}
       /\ Cardinality(IdsOfFile(snippets, b)) = 3
       /\ cur.llm_sent = IdsOfFile(snippets, b)

\* the paths the three stores knew when the run started
Stored0 ==
  SqliteAllFilePaths(cur.rows0) \cup GraphAllFilePaths(cur.nodes0)
    \cup ChromaAllFilePaths(cur.chroma0)

\* C8: after save and cleanup, a file that an earlier run indexed and that
\* has no snippet in the current run is returned by get_all_file_paths() of
\* none of the three stores, and no edge touches one of its former nodes.
C8_Cleanup ==
  RunDone =>
    \A f \in Stored0 \ CurrentFiles(snippets) :
      /\ f \notin SqliteAllFilePaths(sqliteRows)
      /\ f \notin GraphAllFilePaths(graphNodes)
      /\ f \notin ChromaAllFilePaths(chroma)
      /\ \A e \in graphEdges, n \in NodesOfFile(cur.nodes0, f) :
           e[1] # n.id /\ e[2] # n.id

C8_Witness ==
  /\ RunDone
  /\ \E f \in Files :
       /\ all_encountered_files[f] = NoHash
       /\ f \in SqliteAllFilePaths(cur.rows0)
       /\ f \in GraphAllFilePaths(cur.nodes0)
       /\ f \in ChromaAllFilePaths(cur.chroma0)
       /\ \E e \in cur.edges0, n \in NodesOfFile(cur.nodes0, f) : e[2] = n.id
       /\ f \notin SqliteAllFilePaths(sqliteRows)

\* C9 (as stated): after a run, every edge that was persisted before it and
\* whose source snippet belongs to a file that was met and is not in
\* changed_files is still in the graph store.
C9_Original ==
  RunDone =>
    \A e \in cur.edges0 :
      (\E n \in cur.nodes0 : n.id = e[1] /\ n.file \in cur.reused)
        => e \in graphEdges

\* C10 (as stated): a file whose parse raised in the previous run and whose
\* content is unchanged is classified REPARSE and parsed again in this run.
C10_Original ==
  prev.complete =>
    \A f \in prev.parseFailed : Unchanged(f) =>
      f \in cur.parsed /\ f \in changed_files

\* the run has passed summarize_snippets
PastSummarize == pc \in {"summarized", "embedded", "cleaned", "saved"} \/ RunDone

\* C11: a snippet persisted without a summary by the previous run is passed
\* to the summarization collaborator again in this run, also when its file
\* is unchanged.
C11_SummaryRetry ==
  (PastSummarize /\ prev.complete) =>
    \A i \in 1..Len(cur.rows0) :
      (cur.rows0[i].summary = 0 /\ Unchanged(cur.rows0[i].file))
        => cur.rows0[i].id \in cur.llm_sent

C11_Witness ==
  /\ PastSummarize /\ prev.complete
  /\ \E i \in 1..Len(cur.rows0) :
       /\ cur.rows0[i].summary = 0 /\ Unchanged(cur.rows0[i].file)
       /\ cur.rows0[i].file \in cur.reused
       /\ cur.rows0[i].id \in cur.llm_sent

VectorIds(vecs) == {x.id : x \in vecs}

\* C12 (as stated): a snippet of an unchanged file for which the previous
\* run persisted no vector is passed to the embedding collaborator in this
\* run and has a vector in the vector store when the run is over.
C12_Original ==
  (RunDone /\ prev.complete) =>
    \A i \in 1..Len(cur.rows0) :
      (Unchanged(cur.rows0[i].file) /\ cur.rows0[i].id \notin VectorIds(cur.chroma0))
        => /\ cur.rows0[i].id \in cur.emb_sent
           /\ cur.rows0[i].id \in VectorIds(chroma)

\* C13: save on an indexer whose stores are unset raises at once: the step
\* that leaves embed_snippets there is the raise, and it changes no store and
\* no fingerprint.
C13_SaveGuard ==
  [][(pc = "embedded" /\ ~storage /\ ~cur'.silent)
       => (cur'.raised /\ ~cur'.saved /\ pc' = "idle" /\ UNCHANGED storeVars)]_vars

C13_Witness ==
  /\ cur.raised /\ ~storage /\ pc = "idle"
  /\ snippets # <<>>

\* C14 (as stated): cleanup on an indexer whose stores are unset never
\* returns silently.
C14_Original == ~cur.silent

\* the files the walk of this run met
Met == cur.parsed \cup cur.reused

\* C15: during a run all_encountered_files holds the fresh hash of every
\* file the walk met, whatever the classification (none is made when the
\* primary store is unset), and after save the fingerprint table holds that
\* hash for each of them, a file without any snippet included.
C15_Fingerprints ==
  /\ (run >= 1 /\ pc # "idle") =>
       \A f \in Files :
         all_encountered_files[f] = (IF f \in Met THEN Hash(disk[f]) ELSE NoHash)
  /\ pc = "saved" => \A f \in Met : fileHashes[f] = Hash(disk[f])

C15_Witness ==
  /\ pc = "saved"
  /\ \E f \in cur.parseFailed : IdsOfFile(snippets, f) = {} /\ fileHashes[f] = Hash(disk[f])
  /\ \E f \in cur.reused : fileHashes[f] = Hash(disk[f])

\* C16: after save every vector of the vector store is either one the run
\* found there, of a file that is not in changed_files, or the non-null
\* embeddings[i] of a snippets[i] whose file is in changed_files.
C16_VectorWrites ==
  pc = "saved" =>
    \A x \in chroma :
      \/ x \in cur.chroma0 /\ x.file \notin changed_files
      \/ \E i \in 1..Len(snippets) :
           /\ snippets[i].id = x.id /\ snippets[i].file = x.file
           /\ snippets[i].file \in changed_files
           /\ embeddings[i] # NoId /\ x.vec = embeddings[i]

C16_Witness ==
  /\ pc = "saved"
  /\ \E i \in 1..Len(snippets) :
       snippets[i].file \in changed_files /\ embeddings[i] = NoId
  /\ \E x \in chroma : x.file \in changed_files
  /\ \E x \in chroma : x.file \notin changed_files
  /\ \E i \in 1..Len(snippets) :
       snippets[i].file \notin changed_files /\ embeddings[i] # NoId

Appears(id, s) == \E i \in 1..Len(s) : s[i] = id

Before(a, b, s) == \E i, j \in 1..Len(s) : i < j /\ s[i] = a /\ s[j] = b

Fused == searchPc \in {"fused", "done"}

\* 1/(60 + rank) of the claim, over den, for the list s; 0 when id is not in s
RrfTerm(id, s, den) ==
  IF Appears(id, s) THEN den \div (60 + (CHOOSE i \in 1..Len(s) : s[i] = id)) ELSE 0

\* the score of the claim, over the common denominator of the two lists
RrfScore(id) ==
  RrfTerm(id, vector_results, FuseDen(vector_results, keyword_results_list))
    + RrfTerm(id, keyword_results_list, FuseDen(vector_results, keyword_results_list))

\* the general part of C18: the score is the sum of 1/(60 + rank) over the
\* lists that hold the id, every id of either list is returned exactly once
\* and nothing else is, by descending score
RrfGeneral ==
  /\ \A i \in 1..Len(sorted_ids) :
       /\ Appears(sorted_ids[i], vector_results)
            \/ Appears(sorted_ids[i], keyword_results_list)
       /\ CombinedScore(sorted_ids[i], vector_results, keyword_results_list)
            = RrfScore(sorted_ids[i])
       /\ \A j \in 1..Len(sorted_ids) :
            /\ (i # j => sorted_ids[i] # sorted_ids[j])
            /\ (i < j => RrfScore(sorted_ids[i]) >= RrfScore(sorted_ids[j]))
  /\ \A i \in 1..Len(vector_results) : Appears(vector_results[i], sorted_ids)
  /\ \A i \in 1..Len(keyword_results_list) :
       Appears(keyword_results_list[i], sorted_ids)

\* vector ranks [A, B, C] and keyword ranks [B, D]
RrfExample ==
  /\ vector_results = <<DocId(1), DocId(2), DocId(3)>>
  /\ keyword_results_list = <<DocId(2), DocId(4)>>

\* C18 (as stated): the general part, and in the example score(B) is
\* 1/61 + 1/61, score(A) is 1/61 and B comes before A.
C18_Original ==
  Fused =>
    /\ RrfGeneral
    /\ RrfExample =>
         /\ RrfScore(DocId(2)) = 2 * (RankDen(3) \div 61)
         /\ RrfScore(DocId(1)) = RankDen(3) \div 61
         /\ Before(DocId(2), DocId(1), sorted_ids)

\* C18 (amended): the general part, and in the example score(B) is
\* 1/62 + 1/61 (B has rank 2 in the vector list and rank 1 in the keyword
\* list), score(A) is 1/61 and B comes before A.
C18_Fusion ==
  Fused =>
    /\ RrfGeneral
    /\ RrfExample =>
         /\ RrfScore(DocId(2)) = (RankDen(3) \div 62) + (RankDen(3) \div 61)
         /\ RrfScore(DocId(1)) = RankDen(3) \div 61
         /\ Before(DocId(2), DocId(1), sorted_ids)

C18_Witness ==
  /\ Fused /\ RrfExample
  /\ Len(sorted_ids) = 4

\* C19: the keyword candidates hold no id twice; they are the results of the
\* original query in their order, followed by the results of the HyDE query
\* that were not among them; the HyDE keyword search is issued exactly when
\* the orchestrator returned another query than the original.
C19_KeywordCandidates ==
  searchPc \in {"retrieved", "fused", "done"} =>
    /\ \A i, j \in 1..Len(keyword_results_list) :
         i # j => keyword_results_list[i] # keyword_results_list[j]
    /\ keyword_results_list =
         sobs.keyword \o SelectSeq(sobs.hyde_keyword,
                                   LAMBDA id : ~Appears(id, sobs.keyword))
    /\ sobs.hyde_issued <=> (orchestrator /\ final_query # query)

C19_Witness ==
  /\ searchPc = "done" /\ hyde_used /\ sobs.hyde_issued
  /\ sobs.keyword # <<>>
  /\ \E i \in 1..Len(sobs.hyde_keyword) : Appears(sobs.hyde_keyword[i], sobs.keyword)
  /\ \E i \in 1..Len(sobs.hyde_keyword) : ~Appears(sobs.hyde_keyword[i], sobs.keyword)

\* the fused ids that have a row in the primary store, in fused order
Hydrated == SelectSeq(sorted_ids, LAMBDA id : id \in Ids(sqliteRows))

\* C20: search returns at most n_results results, each with a row in the
\* primary store; without a re-ranker they are the first n_results hydrated
\* candidates in fused order, with one they are the hydrated candidates the
\* re-ranker returned, in its order.
C20_Results ==
  searchPc = "done" =>
    /\ Len(final_results) <= n_results
    /\ \A i \in 1..Len(final_results) : final_results[i] \in Ids(sqliteRows)
    /\ ~reranker => final_results = Take(Hydrated, n_results)
    /\ reranker =>
         final_results = [i \in 1..Len(sobs.reranked_meta) |->
                            Hydrated[sobs.reranked_meta[i]]]

C20_Witness ==
  /\ searchPc = "done" /\ ~reranker
  /\ Len(Hydrated) > n_results
  /\ \E i \in 1..Len(sorted_ids) : sorted_ids[i] \notin Ids(sqliteRows)
  /\ final_results # <<>>

\* C27: at every point of the scheduling loop in_degree[p] is the number of
\* children of p that have not completed yet, so it is never negative, also
\* when the parent_id of a snippet is its own id.
C27_Original ==
  (pc = "summarizing" /\ mainPc \in {"wait", "post"}) =>
    \A p \in Ids(snippets) :
      /\ in_degree[p] >= 0
      /\ in_degree[p] = Cardinality(ChildrenOf(p) \ summarized_ids)

\* the members of a batch that need a summary when the batch takes the lock
NeedOf(ids) ==
  {ids[k] : k \in {j \in 1..Len(ids) :
     ids[j] \in needs_llm \/ \E c \in ChildrenOf(ids[j]) : c \in needs_llm}}

\* C29: a batch calls the summarization collaborator if and only if one of
\* its members needs a summary (seeded, or a child marked); the members that
\* need one, and only they, are passed, each with the summaries of exactly
\* those of its children that have a summary at that moment, and all of
\* these children have completed.
C29_Dispatch ==
  [][\A i \in 1..Len(futures) :
       /\ (/\ futures[i].stage = "submitted" /\ processed_count' = processed_count
           /\ futures'[i].stage # "submitted")
          => LET need == NeedOf(futures[i].ids)
                 passed == futures'[i].to_summarize
             IN /\ (futures'[i].stage = "calling") = (need # {})
                /\ (futures'[i].stage = "finished") = (need = {})
                /\ {passed[k] : k \in 1..Len(passed)} = need
                /\ futures'[i].child_context =
                     {<<m, c>> \in need \X Ids(snippets) :
                        c \in ChildrenOf(m) /\ Snip(c).summary # 0}
                /\ \A mc \in futures'[i].child_context : mc[2] \in summarized_ids
       /\ (/\ futures[i].stage = "calling" /\ processed_count' = processed_count
           /\ futures'[i].stage = "finished")
          => cur'.llm_sent \ cur.llm_sent \subseteq
               {futures[i].to_summarize[k] : k \in 1..Len(futures[i].to_summarize)}
    ]_vars

C29_Witness ==
  /\ \E i \in 1..Len(futures) :
       /\ futures[i].stage = "calling"
       /\ futures[i].child_context # {}
       /\ \E c \in ChildrenOf(futures[i].ids[1]) :
            c \in summarized_ids /\ Snip(c).summary = 0
  /\ \E q \in summarized_ids : q \notin needs_llm /\ q \notin cur.llm_sent

\* C22: when the call of the summarization collaborator raises for a batch,
\* its members keep the summary they had on entry, they are counted as
\* completed, their parents are dispatched and complete, and the loop ends
\* with every snippet outside a cycle completed.
C22_Isolation ==
  /\ \A m \in cur.failed : (Snip(m).summary # 0) = (m \in cur.sum0)
  /\ (pc = "summarizing" /\ LoopExited) =>
       /\ \A x \in Ids(snippets) : ~OnCycle(x) => x \in summarized_ids
       /\ \A m \in cur.failed :
            /\ m \in summarized_ids
            /\ (HasParentInSet(m) /\ ~OnCycle(Snip(m).parent)) =>
                 /\ Snip(m).parent \in cur.dispatched
                 /\ Snip(m).parent \in summarized_ids

C22_Witness ==
  /\ pc = "summarizing" /\ LoopExited
  /\ \E m \in cur.failed :
       /\ HasParentInSet(m) /\ ~OnCycle(Snip(m).parent)
       /\ Snip(m).summary = 0
       /\ Snip(Snip(m).parent).summary # 0
       /\ Snip(m).parent \notin cur.sum0
  /\ \E x \in cur.llm_sent \ cur.failed : ~HasParentInSet(x) /\ ChildrenOf(x) = {}

\* C25: when every batch call returns, the scheduling loop ends; each
\* snippet is counted at most once; without a cycle of parent links the loop
\* ends with the processed count equal to the number of distinct snippet ids
\* and every snippet completed, and with cycles it ends with every snippet
\* that is not on a cycle completed.
C25_Termination ==
  /\ <>LoopExited
  /\ [](processed_count = Cardinality(summarized_ids))
  /\ [](LoopExited =>
          /\ ~HasCycle => /\ processed_count = Cardinality(Ids(snippets))
                          /\ summarized_ids = Ids(snippets)
          /\ \A x \in Ids(snippets) : ~OnCycle(x) => x \in summarized_ids)

C25_Witness ==
  /\ LoopExited /\ ~HasCycle
  /\ processed_count = Cardinality(Ids(snippets))
  /\ \E x \in Ids(snippets) : Cardinality(Ancestors(x, Len(snippets))) >= 2
  /\ cur.failed # {}

Declaring(name) ==
  {i \in 1..Len(snippets) :
     snippets[i].name = name /\ snippets[i].type \in {"function", "class", "struct", "enum"}}

C30_EmbedScope ==
  /\ \A x \in cur.emb_sent : Snip(x).file \in changed_files
  /\ pc = "summarized" =>
       \A x \in Ids(snippets) : (x \in cur.emb_sent) = (Snip(x).file \in changed_files)

C30_Witness ==
  /\ pc = "summarized" /\ mainPc = "done"
  /\ cur.emb_sent # {}
  /\ \E x \in cur.llm_sent \ cur.emb_sent :
       Snip(x).file \notin changed_files /\ x \notin cur.sum0 /\ Snip(x).summary # 0

VectorsOfFile(vecs, f) == {x \in vecs : x.file = f}

\* a store gains a row, a node or a vector of the file f in this step
Inserts(f) ==
  \/ ~(IdsOfFile(sqliteRows', f) \subseteq IdsOfFile(sqliteRows, f))
  \/ ~(NodesOfFile(graphNodes', f) \subseteq NodesOfFile(graphNodes, f))
  \/ ~(VectorsOfFile(chroma', f) \subseteq VectorsOfFile(chroma, f))

\* a store loses a row, a node or a vector of the file f in this step
Deletes(f) ==
  \/ ~(IdsOfFile(sqliteRows, f) \subseteq IdsOfFile(sqliteRows', f))
  \/ ~(NodesOfFile(graphNodes, f) \subseteq NodesOfFile(graphNodes', f))
  \/ ~(VectorsOfFile(chroma, f) \subseteq VectorsOfFile(chroma', f))

\* C26: within save, a step that inserts a snippet of a changed file into a
\* store starts from stores from which the rows, graph nodes and vectors of
\* every changed file have been deleted, and a step that deletes data of a
\* changed file comes before anything of the run has been inserted.
C26_DeleteBeforeInsert ==
  [][(pc \in {"embedded", "cleaned"}) =>
       /\ (\E f \in changed_files : Inserts(f)) =>
            /\ cur.deleted = changed_files
            /\ \A g \in changed_files :
                 /\ IdsOfFile(sqliteRows, g) = {}
                 /\ NodesOfFile(graphNodes, g) = {}
                 /\ VectorsOfFile(chroma, g) = {}
            /\ \A g \in changed_files : ~Deletes(g)
       /\ (\E f \in changed_files : Deletes(f)) =>
            /\ cur.written = {} /\ ~cur.saved
            /\ cur'.written = {} /\ ~cur'.saved
            /\ \A g \in changed_files : ~Inserts(g)
    ]_vars

C26_Witness ==
  /\ pc = "saved" /\ prev.complete
  /\ \E f \in changed_files :
       /\ IdsOfFile(cur.rows0, f) \ IdsOfFile(sqliteRows, f) # {}
       /\ IdsOfFile(sqliteRows, f) \ IdsOfFile(cur.rows0, f) # {}
       /\ VectorsOfFile(cur.chroma0, f) # {}
       /\ VectorsOfFile(chroma, f) # {}
       /\ VectorsOfFile(chroma, f) \cap VectorsOfFile(cur.chroma0, f) = {}

\* C21 (as stated): search never raises to its caller; when the vector
\* query or a keyword query fails it returns a result instead.
C21_Original == searchPc # "raised"

\* C28 (as stated): every mutation of the ready pool, of the in-degree
\* counts and of the completed-id set is made by a thread that holds the
\* single scheduler lock, so none is made while another thread holds it.
C28_Original ==
  [][(/\ pc = "summarizing"
      /\ \/ in_degree' # in_degree
         \/ summarized_ids' # summarized_ids
         \/ ready_pool' # ready_pool)
     => ~LockHeld]_vars

\* C32 (as stated): a snippet of a changed file is pushed onto the embedding
\* queue as it reaches DONE in the scheduler, so while the summarization
\* phase is still running every completed changed-file snippet has already
\* been handed to the embedding consumer.
C32_Original ==
  pc = "summarizing" =>
    \A x \in summarized_ids :
      Snip(x).file \in changed_files => x \in cur.emb_sent

\* C34 (as stated): when summarize_snippets has returned from a run whose
\* scheduling loop stopped with snippets that never completed because of a
\* parent-link cycle, the cycle was reported: a message logged by the run
\* names the snippets left behind.
C34_Original ==
  pc = "summarized" /\ HasCycle =>
    \A x \in Ids(snippets) \ summarized_ids :
      \E m \in cur.log : x \in m.ids

\* C33 (as stated): after _propagate_context every snippet whose parent is
\* in the snippet set and has a non-empty summary carries a parent_summary
\* equal to that parent's current summary.
C33_Original ==
  pc = "summarized" =>
    \A x \in Ids(snippets) :
      (HasParentInSet(x) /\ Snip(Snip(x).parent).summary # 0)
        => Snip(x).psum = Snip(Snip(x).parent).summary

\* the file nodes of f in the snippet list
FileNodesOf(f) ==
  {i \in 1..Len(snippets) : snippets[i].type = "file" /\ snippets[i].file = f}

\* the file node of f the primary store held when the run began
StoredFileNodes(f) ==
  {cur.rows0[i] : i \in {j \in 1..Len(cur.rows0) :
                           cur.rows0[j].type = "file" /\ cur.rows0[j].file = f}}

RECURSIVE BatchIds(_)
BatchIds(futs) ==
  IF futs = <<>> THEN <<>> ELSE Head(futs).ids \o BatchIds(Tail(futs))

NoRepeat(seq) == \A i, j \in 1..Len(seq) : seq[i] = seq[j] => i = j

\* C37: in a run of summarize_snippets every batch holds between 1 and
\* batch_size ids, no id is in two batches or twice in one, an id that has
\* completed is in no batch and not in the ready pool again, and the count of
\* completed snippets is the number of distinct completed ids, for every
\* parent assignment (self-parents and cycles included) and with duplicate
\* ids in the input list.
C37_SingleDispatch ==
  pc = "summarizing" =>
    /\ \A i \in 1..Len(futures) :
         Len(futures[i].ids) >= 1 /\ Len(futures[i].ids) <= batch_size
    /\ NoRepeat(BatchIds(futures) \o ready_pool)
    /\ \A i \in 1..Len(BatchIds(futures) \o ready_pool) :
         (BatchIds(futures) \o ready_pool)[i] \notin summarized_ids
    /\ processed_count = Cardinality(summarized_ids)
    /\ summarized_ids \subseteq cur.dispatched
    /\ cur.dispatched \subseteq Ids(snippets)

C37_Witness ==
  /\ pc = "summarizing" /\ LoopExited
  /\ Cardinality(Ids(snippets)) < Len(snippets)
  /\ \E x \in summarized_ids : SelfParent(x) /\ ChildrenOf(x) # {}
  /\ summarized_ids = Ids(snippets)

\* C39 (as stated): when save has returned, the primary store holds, for
\* every snippet the run obtained a summary for, a row with that summary,
\* also when the file of the snippet is not in changed_files.
C39_Original ==
  (pc = "saved" /\ cur.saved) =>
    \A x \in cur.llm_sent \ cur.failed :
      \E i \in 1..Len(sqliteRows) :
        sqliteRows[i].id = x /\ sqliteRows[i].summary = Snip(x).summary

\* the fresh hash of f is its stored fingerprint
FreshStored(f) ==
  all_encountered_files[f] # NoHash /\ GetFileHash(fileHashes, f) = all_encountered_files[f]

\* the new snippets and vectors of f are in the primary and the vector store
WrittenPrimary(f) ==
  /\ {sqliteRows[i] : i \in {j \in 1..Len(sqliteRows) : sqliteRows[j].file = f}}
       = {snippets[i] : i \in {j \in 1..Len(snippets) : snippets[j].file = f}}
  /\ {p \in ValidPairs(snippets, embeddings, changed_files) : p.file = f} \subseteq chroma

\* the nodes of f and the relationships are in the graph store
WrittenGraph(f) ==
  /\ \A i \in 1..Len(snippets) :
       snippets[i].file = f =>
         [id |-> snippets[i].id, file |-> f] \in graphNodes
  /\ relationships # {} =>
       /\ GraphPlaceholders(graphNodes, relationships) = graphNodes
       /\ GraphMergeEdges(graphNodes, graphEdges, relationships) = graphEdges

\* C38 (as stated): the stored fingerprint of a changed file is its fresh
\* hash only when that file's new snippets, its vectors and the
\* relationships have been written.
C38_Original ==
  (pc \in {"cleaned", "saved"} \/ (pc = "idle" /\ cur.aborted # "none")) =>
    \A f \in changed_files : FreshStored(f) => WrittenPrimary(f) /\ WrittenGraph(f)

\* the part of C38 about an aborted save: a fresh fingerprint implies the
\* rows and vectors are written; after an error before the fingerprint loop
\* no changed file has its fresh hash stored, and the next run on the same
\* content parses the file again
SaveAbortSafe ==
  /\ []((pc \in {"cleaned", "saved"} \/ (pc = "idle" /\ cur.aborted # "none")) =>
          \A f \in changed_files : FreshStored(f) => WrittenPrimary(f))
  /\ []((pc = "idle" /\ cur.aborted \notin {"none", "hashes"}) =>
          \A f \in changed_files : ~FreshStored(f))
  /\ [][(pc = "idle" /\ cur.aborted \notin {"none", "hashes"} /\ pc' = "extracted") =>
          \A f \in changed_files :
            (f \in Present /\ Hash(disk[f]) = all_encountered_files[f])
              => f \in cur'.parsed /\ f \in changed_files']_vars

\* the batches the worker has submitted, one after the other
RECURSIVE Cat(_)
Cat(bs) == IF bs = <<>> THEN <<>> ELSE Head(bs) \o Cat(Tail(bs))

\* C31: once the sentinel is put the embedding worker terminates; every
\* submitted batch holds between 1 and batch_size snippets; the snippets in
\* the submitted batches, in the batch being collected and in the queue are,
\* in this order, exactly the snippets put so far (FIFO, none dropped, none
\* twice); and when the worker has terminated every snippet of the list has
\* been put and is in a submitted batch.
C31_SentinelTermination ==
  /\ (embedPc = "join") ~> (workerPc = "done")
  /\ [](/\ \A i \in 1..Len(eobs.batches) :
              Len(eobs.batches[i]) >= 1 /\ Len(eobs.batches[i]) <= embed_batch_size
        /\ Cat(eobs.batches) \o embed_batch
             \o SelectSeq(embedding_queue, LAMBDA x : x # NoId) = eobs.put
        /\ workerPc = "done" => (to_embed = <<>> /\ Cat(eobs.batches) = eobs.put))

C31_Witness ==
  /\ workerPc = "done"
  /\ Len(eobs.put) = MaxSnippets
  /\ \E i, j \in 1..Len(eobs.batches) :
       Len(eobs.batches[i]) = 1 /\ Len(eobs.batches[j]) = embed_batch_size
         /\ embed_batch_size > 1
  /\ faults > 0

\* C40: when _process_embeddings has returned the embedding queue is empty
\* and the worker has terminated; a call on the same indexer starts with an
\* empty queue, and the worker of a later call terminates only after the
\* sentinel of that call was put.
C40_QueueReuse ==
  /\ embedPc = "returned" => (embedding_queue = <<>> /\ workerPc = "done")
  /\ (embedPc = "put" /\ eobs.put = <<>>) => embedding_queue = <<>>
  /\ (run >= 2 /\ workerPc = "done") => (to_embed = <<>> /\ embedPc \in {"join", "returned"})

C40_Witness ==
  /\ run = 2 /\ embedPc = "returned"
  /\ Len(eobs.put) >= 2 /\ Len(eobs.batches) >= 2
  /\ embedding_cache # {}

\* C35 (as stated): when the first attempt of save_snippets or
\* delete_file_snippets fails with a corruption error (an error of the
\* database reporting a malformed image), the full-text index is rebuilt and
\* the operation is attempted a second time; the operation is attempted at
\* most twice.
C35_Original ==
  sqlPc \in {"returned", "raised"} =>
    /\ sqlobs.attempts <= 2
    /\ (sqlobs.errors[1].class # "none" /\ sqlobs.errors[1].malformed)
         => (sqlobs.rebuilds = 1 /\ sqlobs.attempts = 2)
====
